---- MODULE Spec2Model ----
(***************************************************************************)
(* State-machine model of the compliance backend (heroku-api): the query   *)
(* router (submit query, submit feedback), the admin router (token check,  *)
(* user update, GDPR deletion, read-only operations), the relational       *)
(* tables they write and the Redis rate-limit counter.                     *)
(*                                                                         *)
(* Every request runs in a slot (one coroutine with its own database       *)
(* session).  One action is one stretch of handler code between two        *)
(* suspension points (await): the statement sent to Redis or to the        *)
(* database together with the synchronous code that follows it.  The      *)
(* database is READ COMMITTED: a statement sees the rows committed when it *)
(* runs, a session's writes become visible at its commit.                  *)
(*                                                                         *)
(* Also modelled: get_session (the scoped database session), ask_compliance*)
(* of grok4_rag_service (parsing of the model's text, its except clauses), *)
(* and the Discord bot (discord-bot): the health checks of main(), the /ask*)
(* command with its session map, and the FeedbackView buttons.  A bot      *)
(* command posts its request into a slot of the backend and goes on when   *)
(* that request is done.                                                   *)
(***************************************************************************)
EXTENDS Integers, Sequences, FiniteSets, TLC

\* ------------------------------------------------------------- bounds
NumSlots == 2          \* concurrently running requests
MaxQueryReqs == 2      \* submit-query requests of user u1 per run
MaxOtherReqs == 1      \* submit-query requests of every other user per run
MaxUpdates == 1        \* update-user requests per run
MaxFeedbackReqs == 2   \* submit-feedback requests per run
MaxGdprReqs == 1       \* GDPR deletion requests per run
MaxAdminReads == 1     \* read-only admin requests per run
MaxRetrains == 1       \* retrain requests per run
MaxHistoryReqs == 1    \* history requests per run
MaxBanUpdates == 2     \* ban / unban requests per run
MaxHealthReqs == 2     \* health probes per run
MaxTextLen == 6        \* characters of a text given to the splitter
MaxBatch == 3          \* texts of one embedding batch
MaxLateReqs == 3       \* requests of user u1 after its first RATE_LIMIT - 1
MaxDailyReqs == 3      \* submit-query requests of user u1 in SpecDaily
MaxRagCalls == 3       \* ingestions and retrievals per run
MaxRateReqs == 33      \* submit-query requests of user u1 per run of SpecRate
TicksPerSecond == 2    \* clock resolution (ticks per second)

\* -------------------------------------------------- program constants
RATE_LIMIT == 30                 \* if count > 30
RATE_WINDOW_SECONDS == 60        \* redis.expire(key, 60)
RATE_DEFAULT_RETRY == 60         \* retry_after=ttl if ttl > 0 else 60
DEDUP_MINUTES == 5               \* timedelta(minutes=5)
SECONDS_PER_DAY == 86400         \* timedelta(days=1)
DEFAULT_DAILY_LIMIT == 100       \* User.daily_query_limit default
MIN_QUERY_WORDS == 3             \* len(v.strip().split()) < 3

\* Confidence scores are counted in hundredths: 85 is 0.85.
SCORE_UNIT == 100
DEFAULT_CONFIDENCE == 50         \* data.get("confidence", 0.5)
FLAG_BELOW == 50                 \* is_flagged=result["confidence_score"] < 0.5
HIGH_CONFIDENCE == 85            \* confidence_score >= 0.85
MEDIUM_CONFIDENCE == 60          \* confidence_score >= 0.6

HTTP_OK == 200
HTTP_BAD_REQUEST == 400
HTTP_FORBIDDEN == 403
HTTP_NOT_FOUND == 404
HTTP_CONFLICT == 409
HTTP_UNPROCESSABLE == 422
HTTP_TOO_MANY == 429
HTTP_INTERNAL == 500
HTTP_UNAVAILABLE == 503

\* ---------------------------------------------------------------- time
DayTicks == SECONDS_PER_DAY * TicksPerSecond
DedupTicks == DEDUP_MINUTES * 60 * TicksPerSecond
RateTicks == RATE_WINDOW_SECONDS * TicksPerSecond

\* Midnight of the day after the one the run starts in.
Midnight == DayTicks
\* The run starts five minutes before midnight.
StartTime == Midnight - DedupTicks
\* The instants at which requests are observed in Spec: the start, the last
\* tick before midnight (less than five minutes after the start) and midnight
\* itself (exactly five minutes after the start).
QueryInstants == {StartTime, Midnight - 1, Midnight}
\* The instants of SpecRate: around the expiry of a key created at the start.
RateInstants == {StartTime, StartTime + 1, StartTime + RateTicks - 1,
                 StartTime + RateTicks, StartTime + RateTicks + 1}

VARIABLES
    now,        \* wall clock (datetime.utcnow / Redis clock), in ticks
    redis,      \* rate_limit:<user_id> keys: [count, exp, admitted]
    users,      \* table users: set of rows
    logs,       \* table query_logs: set of rows
    feedbacks,  \* table query_feedbacks: set of rows
    nextId,     \* primary keys handed out so far (uuid4 never repeats)
    docs,       \* table compliance_documents: set of rows
    chunks,     \* vector store: the document ids that have chunks stored
    req,        \* the request running in each slot
    quota,      \* requests that may still be started, per kind
    startup,    \* the Discord bot process: position of main() and its history
    views,      \* the FeedbackView of each reply message
    presses,    \* the button callbacks running, one per API slot
    asks,       \* the /ask commands running, one per API slot
    user_sessions,  \* ComplianceCommands.user_sessions: user -> last query id
    askhist,    \* history: the query ids returned to / delivered for each user
    dbsess,     \* get_session: the scoped database session of each slot
    grok,       \* grok4_rag_service: XAI_API_KEY set?  _client created?
    vstore,     \* Redis vector index: hash key -> fields of the stored chunk
    ragenv,     \* environment of the RAG classes: CHUNK_SIZE, CHUNK_OVERLAP, EMBED_DIM
    rag         \* the RAG call under way: operation, arguments, result

\* state of the API process and its stores / state of the Discord bot process
apivars == <<now, redis, users, logs, feedbacks, nextId, docs, chunks, req, quota>>
botvars == <<startup, views, presses, asks, user_sessions, askhist>>
svcvars == <<dbsess, grok>>
ragvars == <<vstore, ragenv, rag>>
vars == <<apivars, botvars, svcvars, ragvars>>

Slots == 1..NumSlots
DiscordIds == {"u1", "u2"}
Null == -1

\* --------------------------------------------------------- query text
\* A query text is a sequence of tokens; " " is a run of whitespace.
WS == " "
RawQueries ==
    { <<"what", "is", "policy">>,
      <<WS, "what", "is", "policy", WS>>,
      <<WS, "hello", WS>> }

RECURSIVE lstrip(_)
lstrip(q) == IF q # <<>> /\ Head(q) = WS THEN lstrip(Tail(q)) ELSE q

RECURSIVE rstrip(_)
rstrip(q) ==
    IF q # <<>> /\ q[Len(q)] = WS THEN rstrip(SubSeq(q, 1, Len(q) - 1)) ELSE q

\* str.strip()
strip(q) == rstrip(lstrip(q))

\* str.split(): the tokens that are not whitespace
split(q) == SelectSeq(q, LAMBDA t : t # WS)

\* QueryRequest.validate_query: TRUE when the text is accepted.
validate_query(v) ==
    /\ strip(v) # <<>>
    /\ Len(split(strip(v))) >= MIN_QUERY_WORDS

\* hashlib.sha256(text).hexdigest(): injective on the texts of the model.
sha256(text) == <<"sha256">> \o text

\* ------------------------------------------------------------- tables
UserRow(id, d) ==
    [id |-> id, discord_id |-> d, total_queries |-> 0, queries_today |-> 0,
     last_query_at |-> Null, daily_query_limit |-> DEFAULT_DAILY_LIMIT,
     is_banned |-> FALSE, ban_reason |-> <<>>]

LogRow(id, uid, h, t) ==
    [id |-> id, user_id |-> uid, query_hash |-> h, created_at |-> t,
     confidence_score |-> DEFAULT_CONFIDENCE, is_flagged |-> FALSE]

FeedbackRow(id, uid, qid, rating, esc) ==
    [id |-> id, user_id |-> uid, query_id |-> qid, overall_rating |-> rating,
     escalated |-> esc]

\* The snapshot "no row loaded"
NoUser == [id |-> 0, discord_id |-> "", total_queries |-> 0, queries_today |-> 0,
           last_query_at |-> Null, daily_query_limit |-> 0,
           is_banned |-> FALSE, ban_reason |-> <<>>]

\* unique=True on users.discord_id: may a row with this identity be inserted?
\* (the table as it would be without the constraint)
UniqueDiscordIdOff(rows, d) == TRUE
UniqueDiscordId(rows, d) == \A u \in rows : u.discord_id # d

\* select(User).where(User.discord_id == d)
UsersByDiscordId(d) == {u \in users : u.discord_id = d}

\* ------------------------------------------------------------- redis
NoKey == [count |-> 0, exp |-> Null, admitted |-> 0]

\* TTL key: -1 for a key without expiry, else the seconds left (rounded).
redis_ttl(k) ==
    IF k.exp = Null THEN -1
    ELSE (k.exp - now + (TicksPerSecond \div 2)) \div TicksPerSecond

\* Keys whose expiry time has come are removed.
ExpireKeys(r, t) ==
    [d \in DiscordIds |->
        IF r[d].exp # Null /\ r[d].exp <= t THEN NoKey ELSE r[d]]

\* ----------------------------------------------------------- requests
IdleReq ==
    [kind |-> "none", pc |-> "idle", status |-> 0, err |-> "",
     user_id |-> "", query |-> <<>>, count |-> 0, urow |-> NoUser,
     qid |-> 0, retry |-> Null, llm |-> 0, persisted |-> {},
     prior |-> {}, fresh |-> {}, atLimit |-> FALSE, tdone |-> Null,
     target |-> [uuid |-> 0, upper |-> FALSE], rating |-> 0, limit |-> 0,
     token |-> [present |-> FALSE, value |-> <<>>],
     confirm |-> [uuid |-> 0, upper |-> FALSE], delF |-> {}, delL |-> {},
     dup |-> FALSE, left |-> {}, op |-> "", doc |-> "", force |-> FALSE,
     edoc |-> [document_id |-> "", version |-> [type |-> "str", val |-> 0]],
     score |-> DEFAULT_CONFIDENCE, cause |-> "", content |-> <<>>,
     label |-> "", hist |-> {}, is_banned |-> <<>>, ban_reason |-> <<>>,
     env |-> [database |-> TRUE, grok4 |-> TRUE], body |-> [status |-> ""],
     trace |-> <<>>]

Done(r, status, err) ==
    [r EXCEPT !.pc = "done", !.status = status, !.err = err, !.tdone = now]

\* RateLimitExceededException.__init__ puts retry_after into the context only
\* when it is truthy; rate_limit_handler reads it back with context.get.
rate_limit_response_retry_after(retry_after) ==
    IF retry_after # 0 THEN retry_after ELSE Null

\* _seconds_until_midnight: int((tomorrow - now).total_seconds())
seconds_until_midnight(t) ==
    (DayTicks - (t % DayTicks)) \div TicksPerSecond

\* (the lookup as it would be if it never matched)
DedupMatchesNone(uid, h, t) == {}

\* The QueryLog rows the deduplication lookup of process_query matches.
\* (the lookup as it would be without the user_id condition)
DedupMatchesAnyUser(uid, h, t) ==
    {l \in logs : l.query_hash = h /\ l.created_at > t - DedupTicks}
DedupMatches(uid, h, t) ==
    {l \in logs : /\ l.user_id = uid
                  /\ l.query_hash = h
                  /\ l.created_at > t - DedupTicks}

\* Ghost: the rows of user identity d with the hash of text q created less
\* than five minutes before t (what the claims call an answered first
\* submission).
RecentAnswers(d, q, t) ==
    {l \in logs : /\ \E u \in users : u.discord_id = d /\ u.id = l.user_id
                  /\ l.query_hash = sha256(q)
                  /\ t - l.created_at < DedupTicks}

\* ----------------------------------------------- POST /api/v1/query
\* A request arrives; pydantic validates the body before the handler runs.
\* request: QueryRequest after validation, or the validation error
QueryRequest(d, raw) ==
    IF validate_query(raw)
    THEN [IdleReq EXCEPT !.kind = "query", !.pc = "incr", !.user_id = d,
                         !.query = strip(raw),
                         !.prior = {l.id : l \in RecentAnswers(d, strip(raw), now)}]
    ELSE Done([IdleReq EXCEPT !.kind = "query", !.user_id = d],
              HTTP_UNPROCESSABLE, "validation_error")

StartQuery(s, d, raw) ==
    /\ req[s].pc = "idle"
    /\ quota.query[d] > 0
    /\ quota' = [quota EXCEPT !.query[d] = @ - 1]
    /\ req' = [req EXCEPT ![s] = QueryRequest(d, raw)]
    /\ UNCHANGED <<ragvars, svcvars, botvars, docs, chunks, now, redis, users, logs, feedbacks, nextId>>

\* The comparison of _check_rate_limit: is a request with this count rejected?
\* (the comparison as it would be if off by one)
OverRateLimitOff(count) == count > RATE_LIMIT + 1
OverRateLimit(count) == count > RATE_LIMIT

\* _check_rate_limit: count = await redis.incr(key)
check_rate_limit_incr(s) ==
    /\ req[s].kind = "query" /\ req[s].pc = "incr"
    /\ LET d == req[s].user_id
           count == redis[d].count + 1
           pass == ~OverRateLimit(count) /\ count # 1
       IN /\ redis' = [redis EXCEPT ![d].count = count,
                                    ![d].admitted = IF pass THEN @ + 1 ELSE @]
          /\ req' = [req EXCEPT ![s].count = count,
                                ![s].trace = Append(@, "rate_limit"),
                                ![s].pc = IF count = 1 THEN "expire"
                                          ELSE IF OverRateLimit(count) THEN "ttl"
                                          ELSE "select"]
    /\ UNCHANGED <<ragvars, svcvars, botvars, docs, chunks, now, users, logs, feedbacks, nextId, quota>>

\* _check_rate_limit: if count == 1: await redis.expire(key, 60)
check_rate_limit_expire(s) ==
    /\ req[s].kind = "query" /\ req[s].pc = "expire"
    /\ LET d == req[s].user_id
           pass == ~OverRateLimit(req[s].count)
       IN /\ redis' = [redis EXCEPT
                ![d].exp = IF redis[d].count > 0 THEN now + RateTicks ELSE @,
                ![d].admitted = IF pass /\ redis[d].count > 0 THEN @ + 1 ELSE @]
          /\ req' = [req EXCEPT ![s].pc = IF pass THEN "select" ELSE "ttl"]
    /\ UNCHANGED <<ragvars, svcvars, botvars, docs, chunks, now, users, logs, feedbacks, nextId, quota>>

\* _check_rate_limit: await redis.expire(key, 60) raises (connection or
\* timeout error of the Redis client), or the task is cancelled while it
\* waits there: the count stays, no expiry is set, the request ends.
check_rate_limit_expire_fails(s) ==
    /\ req[s].kind = "query" /\ req[s].pc = "expire"
    /\ req' = [req EXCEPT ![s] = Done(@, HTTP_INTERNAL, "internal_server_error")]
    /\ UNCHANGED <<ragvars, svcvars, botvars, docs, chunks, now, redis, users, logs, feedbacks, nextId, quota>>

\* _check_rate_limit: if count > 30: ttl = await redis.ttl(key); raise
check_rate_limit_ttl(s) ==
    /\ req[s].kind = "query" /\ req[s].pc = "ttl"
    /\ LET ttl == redis_ttl(redis[req[s].user_id])
           retry_after == IF ttl > 0 THEN ttl ELSE RATE_DEFAULT_RETRY
       IN req' = [req EXCEPT ![s] =
            [Done(@, HTTP_TOO_MANY, "RATE_LIMIT_EXCEEDED") EXCEPT
                !.retry = rate_limit_response_retry_after(retry_after)]]
    /\ UNCHANGED <<ragvars, svcvars, botvars, docs, chunks, now, redis, users, logs, feedbacks, nextId, quota>>

\* variant: step 3 turns a banned user away
daily_limit_check_banned(r, u) ==
    IF u.is_banned
    THEN Done([r EXCEPT !.urow = u, !.trace = Append(@, "daily_limit")],
              HTTP_FORBIDDEN, "forbidden")
    ELSE IF u.queries_today >= u.daily_query_limit
    THEN [Done([r EXCEPT !.urow = u, !.atLimit = TRUE,
                         !.trace = Append(@, "daily_limit")],
               HTTP_TOO_MANY, "RATE_LIMIT_EXCEEDED") EXCEPT
            !.retry = rate_limit_response_retry_after(seconds_until_midnight(now))]
    ELSE [r EXCEPT !.urow = u, !.pc = "dedup",
                   !.trace = Append(@, "daily_limit")]

\* variant: step 3 lets every request through
daily_limit_check_skipped(r, u) ==
    [r EXCEPT !.urow = u, !.pc = "dedup", !.trace = Append(@, "daily_limit")]

\* process_query step 3, run on the User object the session holds:
\* if user.queries_today >= user.daily_query_limit: raise
daily_limit_check(r, u) ==
    IF u.queries_today >= u.daily_query_limit
    THEN [Done([r EXCEPT !.urow = u, !.atLimit = TRUE,
                         !.trace = Append(@, "daily_limit")],
               HTTP_TOO_MANY, "RATE_LIMIT_EXCEEDED") EXCEPT
            !.retry = rate_limit_response_retry_after(seconds_until_midnight(now))]
    ELSE [r EXCEPT !.urow = u, !.pc = "dedup",
                   !.trace = Append(@, "daily_limit")]

\* _get_or_create_user: select(User).where(User.discord_id == discord_id);
\* scalar_one_or_none raises when several rows match.
get_or_create_user_select(s) ==
    /\ req[s].kind = "query" /\ req[s].pc = "select"
    /\ LET found == UsersByDiscordId(req[s].user_id)
           looked == [req[s] EXCEPT !.trace = Append(@, "user")]
       IN \/ /\ found = {}
             /\ req' = [req EXCEPT ![s] = [looked EXCEPT !.pc = "insert"]]
          \/ /\ Cardinality(found) > 1
             /\ req' = [req EXCEPT ![s] =
                          Done(looked, HTTP_INTERNAL, "internal_server_error")]
          \/ \E u \in found :
               /\ Cardinality(found) = 1
               /\ req' = [req EXCEPT ![s] = daily_limit_check(looked, u)]
    /\ UNCHANGED <<ragvars, svcvars, botvars, docs, chunks, now, redis, users, logs, feedbacks, nextId, quota>>

\* _get_or_create_user: session.add(user); await session.commit()
\* The INSERT fails with IntegrityError when the identity already has a row.
get_or_create_user_insert(s) ==
    /\ req[s].kind = "query" /\ req[s].pc = "insert"
    /\ IF UniqueDiscordId(users, req[s].user_id)
       THEN LET u == UserRow(nextId.user + 1, req[s].user_id)
            IN /\ users' = users \cup {u}
               /\ nextId' = [nextId EXCEPT !.user = @ + 1]
               /\ req' = [req EXCEPT ![s].pc = "refresh", ![s].urow = u,
                                     ![s].persisted = @ \cup {"user"}]
       ELSE /\ req' = [req EXCEPT ![s] = Done(@, HTTP_INTERNAL, "internal_server_error")]
            /\ UNCHANGED <<ragvars, svcvars, botvars, docs, chunks, users, nextId>>
    /\ UNCHANGED <<ragvars, svcvars, botvars, docs, chunks, now, redis, logs, feedbacks, quota>>

\* _get_or_create_user: await session.refresh(user), then step 3 of process_query
get_or_create_user_refresh(s) ==
    /\ req[s].kind = "query" /\ req[s].pc = "refresh"
    /\ \E u \in users :
         /\ u.id = req[s].urow.id
         /\ req' = [req EXCEPT ![s] = daily_limit_check(@, u)]
    /\ UNCHANGED <<ragvars, svcvars, botvars, docs, chunks, now, redis, users, logs, feedbacks, nextId, quota>>

\* ask_compliance step 5: if score >= 0.85 ... elif score >= 0.6 ... else
confidence_level(score) ==
    IF score >= HIGH_CONFIDENCE THEN "high"
    ELSE IF score >= MEDIUM_CONFIDENCE THEN "medium"
    ELSE "low"

\* process_query, cached answer: "high" if duplicate.confidence_score >= 0.85
\* else "medium" if duplicate.confidence_score >= 0.6 else "low"
duplicate_confidence(score) ==
    IF score >= HIGH_CONFIDENCE THEN "high"
    ELSE IF score >= MEDIUM_CONFIDENCE THEN "medium"
    ELSE "low"

\* variant: the history compares with > instead of >=
history_confidence_strict(score) ==
    IF score > HIGH_CONFIDENCE THEN "high"
    ELSE IF score > MEDIUM_CONFIDENCE THEN "medium"
    ELSE "low"

\* get_query_history: "high" if query_log.confidence_score >= 0.85
\* else "medium" if query_log.confidence_score >= 0.6 else "low"
history_confidence(score) ==
    IF score >= HIGH_CONFIDENCE THEN "high"
    ELSE IF score >= MEDIUM_CONFIDENCE THEN "medium"
    ELSE "low"

\* process_query step 4: the deduplication lookup (.limit(1) without an order:
\* any matching row) and the cached answer
process_query_dedup(s) ==
    /\ req[s].kind = "query" /\ req[s].pc = "dedup"
    /\ LET r == req[s]
           found == DedupMatches(r.urow.id, sha256(r.query), now)
           seen == [r EXCEPT !.fresh =
                      {l.id : l \in RecentAnswers(r.user_id, r.query, now)},
                              !.trace = Append(@, "dedup")]
       IN \/ /\ found = {}
             /\ req' = [req EXCEPT ![s] = [seen EXCEPT !.pc = "llm"]]
          \/ \E duplicate \in found :
               req' = [req EXCEPT ![s] =
                         [Done(seen, HTTP_OK, "") EXCEPT
                            !.qid = duplicate.id,
                            !.score = duplicate.confidence_score,
                            !.label = duplicate_confidence(duplicate.confidence_score)]]
    /\ UNCHANGED <<ragvars, svcvars, botvars, docs, chunks, now, redis, users, logs, feedbacks, nextId, quota>>

\* process_query step 5: result = await ask_compliance(...); an exception of
\* the service (model unavailable, processing error) is re-raised.
process_query_llm(s) ==
    /\ req[s].kind = "query" /\ req[s].pc = "llm"
    /\ \/ req' = [req EXCEPT ![s].pc = "commit", ![s].llm = @ + 1, ![s].trace = Append(@, "llm"),
                            ![s].label = confidence_level(req[s].score)]
       \/ req' = [req EXCEPT ![s] =
                    Done([@ EXCEPT !.llm = @ + 1, !.trace = Append(@, "llm")], HTTP_UNAVAILABLE, "MODEL_UNAVAILABLE")]
       \/ req' = [req EXCEPT ![s] =
                    Done([@ EXCEPT !.llm = @ + 1, !.trace = Append(@, "llm")], HTTP_UNPROCESSABLE, "PROCESSING_ERROR")]
    /\ UNCHANGED <<ragvars, svcvars, botvars, docs, chunks, now, redis, users, logs, feedbacks, nextId, quota>>

\* variant: nothing is flagged
is_flagged_never(score) == FALSE

\* is_flagged=result["confidence_score"] < 0.5
is_flagged(score) == score < FLAG_BELOW

\* process_query steps 7-9: session.add(query_log); the counters are set from
\* the values the session loaded; await session.commit() writes the INSERT and
\* an UPDATE of the changed columns of the user row.
process_query_commit(s) ==
    /\ req[s].kind = "query" /\ req[s].pc = "commit"
    /\ LET r == req[s]
           l == [LogRow(nextId.log + 1, r.urow.id, sha256(r.query), now)
                   EXCEPT !.confidence_score = r.score,
                          !.is_flagged = is_flagged(r.score)]
       IN /\ logs' = logs \cup {l}
          /\ nextId' = [nextId EXCEPT !.log = @ + 1]
          /\ users' = {IF u.id = r.urow.id
                       THEN [u EXCEPT !.total_queries = r.urow.total_queries + 1,
                                      !.queries_today = r.urow.queries_today + 1,
                                      !.last_query_at = now]
                       ELSE u : u \in users}
          /\ req' = [req EXCEPT ![s] =
                [Done(@, HTTP_OK, "") EXCEPT !.qid = l.id,
                                             !.trace = Append(@, "commit"),
                                             !.persisted = @ \cup {"log", "counters"}]]
    /\ UNCHANGED <<ragvars, svcvars, botvars, docs, chunks, now, redis, feedbacks, quota>>

\* GET /api/v1/history/{user_id}: select(User).where(discord_id == user_id);
\* an unknown user gets the empty list
StartHistory(s, d) ==
    /\ req[s].pc = "idle"
    /\ quota.history > 0
    /\ quota' = [quota EXCEPT !.history = @ - 1]
    /\ req' = [req EXCEPT ![s] =
         LET r == [IdleReq EXCEPT !.kind = "history", !.user_id = d]
         IN IF UsersByDiscordId(d) = {}
            THEN Done(r, HTTP_OK, "")
            ELSE [r EXCEPT !.pc = "queries",
                           !.urow = CHOOSE u \in UsersByDiscordId(d) : TRUE]]
    /\ UNCHANGED <<ragvars, svcvars, botvars, docs, chunks, now, redis, users, logs, feedbacks, nextId>>

\* the user's QueryLog rows are selected (the model never holds more than
\* the limit) and each is turned into a QueryHistoryResponse
get_query_history(s) ==
    /\ req[s].kind = "history" /\ req[s].pc = "queries"
    /\ req' = [req EXCEPT ![s] =
         Done([@ EXCEPT !.hist =
                 {[query_id |-> l.id,
                   confidence |-> history_confidence(l.confidence_score),
                   has_feedback |-> (\E f \in feedbacks : f.query_id = l.id)] :
                  l \in {x \in logs : x.user_id = req[s].urow.id}}],
              HTTP_OK, "")]
    /\ UNCHANGED <<ragvars, svcvars, botvars, docs, chunks, now, redis, users, logs, feedbacks, nextId, quota>>

\* The response is sent and get_session releases the session.
Respond(s) ==
    /\ req[s].pc = "done"
    /\ req' = [req EXCEPT ![s] = IdleReq]
    /\ UNCHANGED <<ragvars, svcvars, botvars, docs, chunks, now, redis, users, logs, feedbacks, nextId, quota>>

\* ------------------------------------------------------ admin: the token
\* A header value is a sequence of characters; "é" stands for any character
\* outside ASCII.  present = FALSE: the request carries no X-Admin-Token.
NonAscii == {"é"}
ADMIN_TOKEN == <<"k", "e", "y">>
NoHeader == [present |-> FALSE, value |-> <<>>]
Header(v) == [present |-> TRUE, value |-> v]
Tokens ==
    { NoHeader, Header(ADMIN_TOKEN), Header(<<"k", "e", "x">>),
      Header(<<"k", "e">>), Header(<<>>), Header(<<"k", "é", "y">>) }
ValidToken == Header(ADMIN_TOKEN)

\* secrets.compare_digest on two str: equality; TypeError (here "TypeError")
\* when one of them holds a character outside ASCII.
compare_digest(a, b) ==
    IF \E i \in 1..Len(a) : a[i] \in NonAscii THEN "TypeError"
    ELSE IF \E i \in 1..Len(b) : b[i] \in NonAscii THEN "TypeError"
    ELSE IF a = b THEN "True" ELSE "False"

\* The dependency verify_admin of every /admin route, as the application
\* answers it: 0 when the handler may run, else the status of the response.
\* Header(...) is required: without it FastAPI raises RequestValidationError
\* (validation_exception_handler, 422) and verify_admin is not called; an
\* exception other than the taxonomy's goes to generic_exception_handler (500).
verify_admin(x_admin_token) ==
    IF ~x_admin_token.present THEN HTTP_UNPROCESSABLE
    ELSE LET eq == compare_digest(x_admin_token.value, ADMIN_TOKEN)
         IN IF eq = "TypeError" THEN HTTP_INTERNAL
            ELSE IF eq = "False" THEN HTTP_FORBIDDEN
            ELSE 0

AdminError(status) ==
    IF status = HTTP_FORBIDDEN THEN "INSUFFICIENT_PERMISSIONS"
    ELSE IF status = HTTP_UNPROCESSABLE THEN "validation_error"
    ELSE "internal_server_error"

\* An /admin request arrives: kind, first program point, token.
AdminStart(kind, pc, token) ==
    LET r == [IdleReq EXCEPT !.kind = kind, !.token = token]
        v == verify_admin(token)
    IN IF v = 0 THEN [r EXCEPT !.pc = pc] ELSE Done(r, v, AdminError(v))

\* The keyword arguments a declarative class accepts are its mapped attributes;
\* any other raises TypeError in the constructor.
SystemAuditLogColumns ==
    {"id", "event_type", "event_category", "severity", "actor_id", "actor_type",
     "target_type", "target_id", "description", "metadata", "ip_address",
     "user_agent", "request_id", "retention_days", "created_at"}
AdminAuditKwargs == {"event_type", "actor_id", "target_resource", "action_details"}
constructor_accepts(columns, kwargs) == kwargs \subseteq columns

\* ------------------------------------------- PUT /admin/users/{user_id}
\* The path parameter is the text of a UUID: [uuid |-> n, upper |-> b] is the
\* text of primary key n in lower or upper case, uuid = 0 a text UUID() rejects.
UuidText(n, up) == [uuid |-> n, upper |-> up]
\* UUID(text): the key, or 0 for ValueError
UUID(text) == text.uuid

LimitInputs == {0, 1}

StartUpdate(s, token, target, limit) ==
    /\ req[s].pc = "idle"
    /\ quota.update > 0
    /\ quota' = [quota EXCEPT !.update = @ - 1]
    /\ req' = [req EXCEPT ![s] =
         [AdminStart("update", "get", token) EXCEPT !.target = target,
                                                    !.limit = limit]]
    /\ UNCHANGED <<ragvars, svcvars, botvars, docs, chunks, now, redis, users, logs, feedbacks, nextId>>

\* UserUpdateRequest.is_banned and .ban_reason: an Optional value is <<>> for
\* None and <<v>> for the value v.
BanInputs == {<<>>, <<TRUE>>, <<FALSE>>}
ReasonInputs == {<<>>, <<"">>, <<"spam">>}

\* a request that carries is_banned and ban_reason only
StartBanUpdate(s, target, banned, reason) ==
    /\ req[s].pc = "idle"
    /\ quota.update > 0
    /\ quota' = [quota EXCEPT !.update = @ - 1]
    /\ req' = [req EXCEPT ![s] =
         [AdminStart("update", "get", ValidToken) EXCEPT
            !.target = target, !.limit = Null,
            !.is_banned = banned, !.ban_reason = reason]]
    /\ UNCHANGED <<ragvars, svcvars, botvars, docs, chunks, now, redis, users, logs, feedbacks, nextId>>

\* if request.is_banned and request.ban_reason:
ban_recorded(request) ==
    request.is_banned = <<TRUE>> /\ request.ban_reason \notin {<<>>, <<"">>}

\* "Apply updates": the loaded User after the assignments of the handler.
\* User maps no column banned_at: the assignment to user.banned_at makes an
\* attribute of the object only.
apply_updates(user, request) ==
    LET a == IF request.limit # Null
             THEN [user EXCEPT !.daily_query_limit = request.limit] ELSE user
        b == IF request.is_banned # <<>>
             THEN [a EXCEPT !.is_banned = request.is_banned[1]] ELSE a
    IN IF request.is_banned = <<>> THEN b
       ELSE IF ban_recorded(request)
       THEN ("banned_at" :> now) @@ [b EXCEPT !.ban_reason = request.ban_reason]
       ELSE IF request.is_banned = <<FALSE>>
       THEN ("banned_at" :> Null) @@ [b EXCEPT !.ban_reason = <<>>]
       ELSE b

\* session.commit(): UPDATE ... SET of the mapped columns whose value differs
\* from the loaded one, WHERE id = the primary key
flush_update(row, loaded, object) ==
    [c \in DOMAIN row |-> IF object[c] # loaded[c] THEN object[c] ELSE row[c]]

\* user = await session.get(User, UUID(user_id)); the fields of the request
\* are set on the loaded object.
update_user_get(s) ==
    /\ req[s].kind = "update" /\ req[s].pc = "get"
    /\ LET key == UUID(req[s].target)
           found == {u \in users : u.id = key}
       IN IF key = 0
          THEN req' = [req EXCEPT ![s] = Done(@, HTTP_INTERNAL, "internal_server_error")]
          ELSE IF found = {}
          THEN req' = [req EXCEPT ![s] = Done(@, HTTP_NOT_FOUND, "not_found")]
          ELSE \E u \in found : req' = [req EXCEPT ![s].urow = u, ![s].pc = "commit"]
    /\ UNCHANGED <<ragvars, svcvars, botvars, docs, chunks, now, redis, users, logs, feedbacks, nextId, quota>>

\* await session.commit(): UPDATE of the changed columns; the SystemAuditLog
\* constructor that follows raises TypeError on its keyword arguments.
update_user_commit(s) ==
    /\ req[s].kind = "update" /\ req[s].pc = "commit"
    /\ users' = {IF u.id = req[s].urow.id
                 THEN flush_update(u, req[s].urow, apply_updates(req[s].urow, req[s]))
                 ELSE u : u \in users}
    /\ req' = [req EXCEPT ![s] =
         IF constructor_accepts(SystemAuditLogColumns, AdminAuditKwargs)
         THEN [@ EXCEPT !.pc = "audit", !.persisted = @ \cup {"user"}]
         ELSE Done([@ EXCEPT !.persisted = @ \cup {"user"}],
                   HTTP_INTERNAL, "internal_server_error")]
    /\ UNCHANGED <<ragvars, svcvars, botvars, docs, chunks, now, redis, logs, feedbacks, nextId, quota>>

\* ------------------------------------------- POST /api/v1/query/feedback
Ratings == {1, 5}

\* unique=True on query_feedbacks.query_id: may a row for this query be inserted?
\* (the table as it would be without the constraint)
UniqueQueryIdOff(rows, qid) == TRUE
UniqueQueryId(rows, qid) == \A f \in rows : f.query_id # qid

\* The QueryLog rows a DELETE statement of a running GDPR deletion has removed
\* without the transaction having committed yet.  An INSERT that references
\* such a row waits for that transaction to end.
PendingDeletedLogs == UNION {req[s].delL : s \in Slots}

\* Ghost: does a feedback row for this query exist (at the end of a request)?
HasFeedback(qid) == \E f \in feedbacks : f.query_id = qid

\* request: FeedbackRequest as the handler receives it
FeedbackRequest(target, rating) ==
    [IdleReq EXCEPT !.kind = "feedback", !.pc = "get", !.target = target,
                    !.rating = rating]

StartFeedback(s, target, rating) ==
    /\ req[s].pc = "idle"
    /\ quota.feedback > 0
    /\ quota' = [quota EXCEPT !.feedback = @ - 1]
    /\ req' = [req EXCEPT ![s] = FeedbackRequest(target, rating)]
    /\ UNCHANGED <<ragvars, svcvars, botvars, docs, chunks, now, redis, users, logs, feedbacks, nextId>>

\* query_log = await session.get(QueryLog, UUID(request.query_id))
submit_feedback_get(s) ==
    /\ req[s].kind = "feedback" /\ req[s].pc = "get"
    /\ LET key == UUID(req[s].target)
           found == {l \in logs : l.id = key}
       IN IF key = 0
          THEN req' = [req EXCEPT ![s] = Done(@, HTTP_INTERNAL, "internal_server_error")]
          ELSE IF found = {}
          THEN req' = [req EXCEPT ![s] =
                  Done([@ EXCEPT !.dup = HasFeedback(key)], HTTP_NOT_FOUND, "not_found")]
          ELSE \E l \in found :
                 req' = [req EXCEPT ![s].qid = l.id, ![s].urow = [NoUser EXCEPT !.id = l.user_id],
                                    ![s].pc = "existing"]
    /\ UNCHANGED <<ragvars, svcvars, botvars, docs, chunks, now, redis, users, logs, feedbacks, nextId, quota>>

\* existing = select(QueryFeedback).where(query_id == query_log.id)
submit_feedback_existing(s) ==
    /\ req[s].kind = "feedback" /\ req[s].pc = "existing"
    /\ req' = [req EXCEPT ![s] =
         IF HasFeedback(req[s].qid)
         THEN Done([@ EXCEPT !.dup = TRUE], HTTP_CONFLICT, "conflict")
         ELSE [@ EXCEPT !.pc = "commit"]]
    /\ UNCHANGED <<ragvars, svcvars, botvars, docs, chunks, now, redis, users, logs, feedbacks, nextId, quota>>

\* session.add(feedback); await session.commit(): the INSERT waits while the
\* referenced QueryLog is being deleted by an open transaction; it fails with
\* IntegrityError when that row is gone (foreign key) or already has feedback
\* (unique).
submit_feedback_commit(s) ==
    /\ req[s].kind = "feedback" /\ req[s].pc = "commit"
    /\ req[s].qid \notin PendingDeletedLogs
    /\ LET r == req[s]
           f == FeedbackRow(nextId.fb + 1, r.urow.id, r.qid, r.rating, FALSE)
       IN IF (\E l \in logs : l.id = r.qid) /\ UniqueQueryId(feedbacks, r.qid)
          THEN /\ feedbacks' = feedbacks \cup {f}
               /\ nextId' = [nextId EXCEPT !.fb = @ + 1]
               /\ req' = [req EXCEPT ![s] =
                     Done([@ EXCEPT !.persisted = @ \cup {"feedback"}], HTTP_OK, "")]
          ELSE /\ req' = [req EXCEPT ![s] =
                     Done([@ EXCEPT !.dup = HasFeedback(r.qid)],
                          HTTP_INTERNAL, "internal_server_error")]
               /\ UNCHANGED <<ragvars, svcvars, botvars, docs, chunks, feedbacks, nextId>>
    /\ UNCHANGED <<ragvars, svcvars, botvars, docs, chunks, now, redis, users, logs, quota>>

\* -------------------------------- DELETE /admin/users/{user_id}/queries
\* if confirm != user_id: the comparison of the two texts
\* (the comparison as it would be on parsed UUIDs)
confirm_mismatch_by_key(confirm, user_id) == UUID(confirm) # UUID(user_id)
confirm_mismatch(confirm, user_id) == confirm # user_id

StartGdpr(s, token, user_id, confirm) ==
    /\ req[s].pc = "idle"
    /\ quota.gdpr > 0
    /\ quota' = [quota EXCEPT !.gdpr = @ - 1]
    /\ req' = [req EXCEPT ![s] =
         LET r == [AdminStart("gdpr", "get", token) EXCEPT !.target = user_id,
                                                           !.confirm = confirm]
         IN IF r.pc = "get" /\ confirm_mismatch(confirm, user_id)
            THEN Done(r, HTTP_BAD_REQUEST, "bad_request")
            ELSE r]
    /\ UNCHANGED <<ragvars, svcvars, botvars, docs, chunks, now, redis, users, logs, feedbacks, nextId>>

\* user = await session.get(User, UUID(user_id))
gdpr_get(s) ==
    /\ req[s].kind = "gdpr" /\ req[s].pc = "get"
    /\ LET key == UUID(req[s].target)
           found == {u \in users : u.id = key}
       IN IF key = 0
          THEN req' = [req EXCEPT ![s] = Done(@, HTTP_INTERNAL, "internal_server_error")]
          ELSE IF found = {}
          THEN req' = [req EXCEPT ![s] = Done(@, HTTP_NOT_FOUND, "not_found")]
          ELSE \E u \in found : req' = [req EXCEPT ![s].urow = u, ![s].pc = "count"]
    /\ UNCHANGED <<ragvars, svcvars, botvars, docs, chunks, now, redis, users, logs, feedbacks, nextId, quota>>

\* The two count(*) statements; their results go to the audit entry and the
\* response only.
gdpr_count(s) ==
    /\ req[s].kind = "gdpr" /\ req[s].pc = "count"
    /\ req' = [req EXCEPT ![s].pc = "delete_feedback"]
    /\ UNCHANGED <<ragvars, svcvars, botvars, docs, chunks, now, redis, users, logs, feedbacks, nextId, quota>>

\* DELETE FROM query_feedbacks WHERE user_id = :id -- the rows committed now
gdpr_delete_feedback(s) ==
    /\ req[s].kind = "gdpr" /\ req[s].pc = "delete_feedback"
    /\ req' = [req EXCEPT
         ![s].delF = {f.id : f \in {g \in feedbacks : g.user_id = req[s].urow.id}},
         ![s].pc = "delete_logs"]
    /\ UNCHANGED <<ragvars, svcvars, botvars, docs, chunks, now, redis, users, logs, feedbacks, nextId, quota>>

\* DELETE FROM query_logs WHERE user_id = :id -- the rows committed now, and
\* by ON DELETE CASCADE the feedback rows that reference them
gdpr_delete_logs(s) ==
    /\ req[s].kind = "gdpr" /\ req[s].pc = "delete_logs"
    /\ LET gone == {l.id : l \in {m \in logs : m.user_id = req[s].urow.id}}
       IN req' = [req EXCEPT
            ![s].delL = gone,
            ![s].delF = @ \cup {f.id : f \in {g \in feedbacks : g.query_id \in gone}},
            ![s].pc = "commit"]
    /\ UNCHANGED <<ragvars, svcvars, botvars, docs, chunks, now, redis, users, logs, feedbacks, nextId, quota>>

\* user.total_queries = 0; user.queries_today = 0; user.last_query_at = None;
\* await session.commit(): the deletes take effect, and the UPDATE sets the
\* columns whose new value differs from the value the session loaded.  The
\* SystemAuditLog constructor that follows raises TypeError.
gdpr_commit(s) ==
    /\ req[s].kind = "gdpr" /\ req[s].pc = "commit"
    /\ LET r == req[s]
           reset(u) ==
             [u EXCEPT
                !.total_queries = IF r.urow.total_queries # 0 THEN 0 ELSE @,
                !.queries_today = IF r.urow.queries_today # 0 THEN 0 ELSE @,
                !.last_query_at = IF r.urow.last_query_at # Null THEN Null ELSE @]
           fin == [r EXCEPT !.delF = {}, !.delL = {},
                            !.persisted = @ \cup {"gdpr"}]
       IN /\ feedbacks' = {f \in feedbacks : f.id \notin r.delF}
          /\ logs' = {l \in logs : l.id \notin r.delL}
          /\ users' = {IF u.id = r.urow.id THEN reset(u) ELSE u : u \in users}
          /\ req' = [req EXCEPT ![s] =
               LET seen == [fin EXCEPT !.left =
                     {<<"log", l.id>> : l \in {m \in logs' : m.user_id = r.urow.id}}
                     \cup {<<"feedback", f.id>> : f \in {g \in feedbacks' : g.user_id = r.urow.id}}
                     \cup {<<"counter", 0>> : u \in {v \in users' :
                              /\ v.id = r.urow.id
                              /\ (v.total_queries # 0 \/ v.queries_today # 0)}}]
               IN IF constructor_accepts(SystemAuditLogColumns, AdminAuditKwargs)
                  THEN [seen EXCEPT !.pc = "audit"]
                  ELSE Done(seen, HTTP_INTERNAL, "internal_server_error")]
    /\ UNCHANGED <<ragvars, svcvars, botvars, docs, chunks, now, redis, nextId, quota>>

\* --------------------------------------------- read-only admin operations
\* GET /admin/stats, /admin/users, /admin/queries/flagged, /admin/audit-log
AdminReadOps == {"stats", "users", "flagged", "audit"}

\* The attributes of SystemAuditLog a read-only handler refers to.
AuditAttributesUsed(op) ==
    IF op = "stats" THEN {"timestamp"}
    ELSE IF op = "audit" THEN {"actor", "timestamp"}
    ELSE {}

StartAdminRead(s, token, op) ==
    /\ req[s].pc = "idle"
    /\ quota.admin > 0
    /\ quota' = [quota EXCEPT !.admin = @ - 1]
    /\ req' = [req EXCEPT ![s] = [AdminStart("read", "read", token) EXCEPT !.op = op]]
    /\ UNCHANGED <<ragvars, svcvars, botvars, docs, chunks, now, redis, users, logs, feedbacks, nextId>>

\* The handler's SELECT statements; a reference to an attribute the class
\* does not have raises AttributeError.
admin_read(s) ==
    /\ req[s].kind = "read" /\ req[s].pc = "read"
    /\ req' = [req EXCEPT ![s] =
         IF AuditAttributesUsed(req[s].op) \subseteq SystemAuditLogColumns
         THEN Done(@, HTTP_OK, "")
         ELSE Done(@, HTTP_INTERNAL, "internal_server_error")]
    /\ UNCHANGED <<ragvars, svcvars, botvars, docs, chunks, now, redis, users, logs, feedbacks, nextId, quota>>

\* ------------------------------------------- POST /admin/model/retrain
DocumentIds == {"doc1"}
ComplianceDocumentColumns ==
    {"id", "title", "document_id", "version", "content", "summary",
     "document_type", "category", "subcategory", "keywords", "department",
     "access_level", "effective_date", "expiration_date", "is_active",
     "source_url", "source_hash", "created_at", "updated_at"}
RetrainDocKwargs ==
    {"document_id", "title", "document_type", "source_url", "version",
     "is_active", "last_indexed_at"}

StartRetrain(s, token, doc, force) ==
    /\ req[s].pc = "idle"
    /\ quota.retrain > 0
    /\ quota' = [quota EXCEPT !.retrain = @ - 1]
    /\ req' = [req EXCEPT ![s] =
         [AdminStart("retrain", "select", token) EXCEPT !.doc = doc, !.force = force]]
    /\ UNCHANGED <<ragvars, svcvars, botvars, docs, chunks, now, redis, users, logs, feedbacks, nextId>>

\* Python values whose type decides an operation: the ORM hands a String
\* column back as str.
PyInt(n) == [type |-> "int", val |-> n]
PyStr(n) == [type |-> "str", val |-> n]
PyTypeError == [type |-> "TypeError", val |-> 0]
\* x += n for an int n
py_iadd(x, n) == IF x.type = "int" THEN PyInt(x.val + n) ELSE PyTypeError

\* A row of compliance_documents: version is String(20)
DocRow(doc, v) == [document_id |-> doc, version |-> PyStr(v)]
NoDoc == [document_id |-> "", version |-> PyStr(0)]

\* if existing_doc and not request.force_reindex: raise HTTPException(409)
reject_existing_never(existing_doc, force_reindex) == FALSE
reject_existing(existing_doc, force_reindex) == existing_doc # {} /\ ~force_reindex

\* existing = select(ComplianceDocument).where(document_id == ...)
retrain_select(s) ==
    /\ req[s].kind = "retrain" /\ req[s].pc = "select"
    /\ LET existing_doc == {d \in docs : d.document_id = req[s].doc}
           seen == [req[s] EXCEPT !.edoc = IF existing_doc = {} THEN NoDoc
                                            ELSE CHOOSE d \in existing_doc : TRUE]
       IN req' = [req EXCEPT ![s] =
            IF reject_existing(existing_doc, req[s].force)
            THEN Done(seen, HTTP_CONFLICT, "conflict")
            ELSE [seen EXCEPT !.pc = "ingest"]]
    /\ UNCHANGED <<ragvars, svcvars, botvars, docs, chunks, now, redis, users, logs, feedbacks, nextId, quota>>

\* await ingest_document(...): the download fails (exception), or the text
\* yields no chunks (nothing stored), or the chunks are stored.  Then the
\* document record is prepared: for an existing document version += 1, which
\* raises TypeError on a str; for a new one the ComplianceDocument constructor,
\* which raises TypeError on last_indexed_at.  The handler turns every
\* exception into 500.  The value ingest_document returns is dropped; cause
\* keeps what the ingestion did.
retrain_ingest(s) ==
    /\ req[s].kind = "retrain" /\ req[s].pc = "ingest"
    /\ \E outcome \in {"download_failed", "no_chunks", "success"} :
         /\ chunks' = IF outcome = "success" THEN chunks \cup {req[s].doc} ELSE chunks
         /\ req' = [req EXCEPT ![s] =
              LET r == IF outcome = "success"
                       THEN [@ EXCEPT !.persisted = @ \cup {"chunks"},
                                      !.cause = outcome]
                       ELSE [@ EXCEPT !.cause = outcome]
                  version == IF r.edoc # NoDoc THEN py_iadd(r.edoc.version, 1)
                             ELSE PyInt(1)
                  built == IF r.edoc # NoDoc THEN version # PyTypeError
                           ELSE constructor_accepts(ComplianceDocumentColumns,
                                                    RetrainDocKwargs)
              IN IF outcome # "download_failed" /\ built
                 THEN [r EXCEPT !.pc = "record", !.edoc.version = version]
                 ELSE Done(r, HTTP_INTERNAL, "internal_server_error")]
    /\ UNCHANGED <<ragvars, svcvars, botvars, docs, now, redis, users, logs, feedbacks, nextId, quota>>

\* ---------------------------------------------------------------- clock
TickTo(instants) ==
    /\ \E t \in instants :
         /\ t > now
         /\ now' = t
         /\ redis' = ExpireKeys(redis, t)
    /\ UNCHANGED <<ragvars, svcvars, botvars, docs, chunks, users, logs, feedbacks, nextId, req, quota>>

Tick == TickTo(QueryInstants)
TickRate == TickTo(RateInstants)

\* ------------------------------------------------------- GET /health*
\* What a probe meets: is PostgreSQL reachable, does the model API answer
\* the ping of grok4_rag_service.health_check (which returns False on any
\* exception).
Environments == [database : BOOLEAN, grok4 : BOOLEAN]
HealthPaths == {"", "/ready"}

CONNECTION_REFUSED == "connection refused"
NOT_EXECUTABLE == "Not an executable object: 'SELECT 1'"

\* Connection.execute(statement) of SQLAlchemy 2 (the models use Mapped and
\* mapped_column): a str is not an executable object and raises
\* ObjectNotExecutableError; "" when nothing is raised.
conn_execute(statement) ==
    IF statement.type = "str" THEN NOT_EXECUTABLE ELSE ""

\* async with engine.connect() as conn: await conn.execute("SELECT 1")
\* the message of the exception raised, "" when none is
database_check(env) ==
    IF ~env.database THEN CONNECTION_REFUSED
    ELSE conn_execute([type |-> "str", sql |-> "SELECT 1"])

\* response_model=HealthResponse keeps the declared fields of the body
HealthResponse(body) ==
    [k \in DOMAIN body \cap {"status", "timestamp", "uptime_seconds"} |-> body[k]]

StartHealth(s, path, env) ==
    /\ req[s].pc = "idle"
    /\ quota.health > 0
    /\ quota' = [quota EXCEPT !.health = @ - 1]
    /\ req' = [req EXCEPT ![s] =
         [IdleReq EXCEPT !.kind = "health", !.pc = "handler", !.op = path,
                         !.env = env]]
    /\ UNCHANGED <<ragvars, svcvars, botvars, docs, chunks, now, redis, users, logs, feedbacks, nextId>>

\* GET /health
health_basic(s) ==
    /\ req[s].kind = "health" /\ req[s].pc = "handler" /\ req[s].op = ""
    /\ req' = [req EXCEPT ![s] =
         Done([@ EXCEPT !.body =
                 HealthResponse([status |-> "healthy", timestamp |-> now,
                                 uptime_seconds |-> now - StartTime])],
              HTTP_OK, "")]
    /\ UNCHANGED <<ragvars, svcvars, botvars, docs, chunks, now, redis, users, logs, feedbacks, nextId, quota>>

\* GET /health/ready
health_ready(s) ==
    /\ req[s].kind = "health" /\ req[s].pc = "handler" /\ req[s].op = "/ready"
    /\ LET e == database_check(req[s].env)
       IN req' = [req EXCEPT ![s] =
            IF e # ""
            THEN Done([@ EXCEPT !.body = [status |-> "not_ready", reason |-> e]],
                      HTTP_UNAVAILABLE, "")
            ELSE IF ~req[s].env.grok4
            THEN Done([@ EXCEPT !.body = [status |-> "not_ready",
                                          reason |-> "grok4_unavailable"]],
                      HTTP_UNAVAILABLE, "")
            ELSE Done([@ EXCEPT !.body = [status |-> "ready"]], HTTP_OK, "")]
    /\ UNCHANGED <<ragvars, svcvars, botvars, docs, chunks, now, redis, users, logs, feedbacks, nextId, quota>>

\* ------------------------------------------------ Discord bot: main()
\* main() checks the API's health before it connects to Discord.
MAX_RETRIES == 3     \* max_retries = 3
RETRY_DELAY == 5     \* retry_delay = 5 (seconds)

\* What a GET /health can come to: a 2xx answer with a JSON body (an object
\* with some status, an object without one, or JSON that is no object), an
\* error status, or no answer at all.
HealthReplies == {"healthy", "degraded", "no_status", "not_an_object",
                  "http_error", "unreachable"}
CheckSeconds == {0, 1}      \* time one GET /health takes

NotADict == [type |-> "list"]
HealthDict(status) == [type |-> "dict", status |-> status]

\* APIClient.health_check: the body of a 2xx answer as it is, and for every
\* exception {"status": "unhealthy", "error": ...}.
health_check(reply) ==
    CASE reply \in {"http_error", "unreachable"} -> HealthDict("unhealthy")
      [] reply = "not_an_object" -> NotADict
      [] reply = "no_status" -> HealthDict("None")
      [] OTHER -> HealthDict(reply)

\* variant: everything but "unhealthy" counts as healthy
is_healthy_unless_unhealthy(health) == health.status # "unhealthy"

\* health.get("status") == "healthy"
is_healthy(health) == health.status = "healthy"

IdleStartup == [pc |-> "check", attempt |-> 0, clock |-> 0, replies |-> <<>>,
                began |-> <<>>, ended |-> <<>>, connected |-> FALSE]

\* one pass of the loop body up to its next await
main_health_check ==
    /\ startup.pc = "check"
    /\ \E reply \in HealthReplies, d \in CheckSeconds :
         LET health == health_check(reply)
             st == [startup EXCEPT !.replies = Append(@, reply),
                                   !.began = Append(@, startup.clock),
                                   !.ended = Append(@, startup.clock + d),
                                   !.clock = @ + d]
         IN startup' =
              IF health.type # "dict"
              THEN [st EXCEPT !.pc = "crashed"]   \* AttributeError, exit 1
              ELSE IF is_healthy(health)
              THEN [st EXCEPT !.pc = "start"]     \* break
              ELSE IF startup.attempt < MAX_RETRIES - 1
              THEN [st EXCEPT !.pc = "sleep"]
              ELSE [st EXCEPT !.pc = "aborted"]   \* sys.exit(1)
    /\ UNCHANGED <<ragvars, svcvars, apivars, views, presses, asks, user_sessions, askhist>>

\* await asyncio.sleep(retry_delay), then the next iteration
main_sleep ==
    /\ startup.pc = "sleep"
    /\ startup' = [startup EXCEPT !.pc = "check", !.attempt = @ + 1,
                                  !.clock = @ + RETRY_DELAY]
    /\ UNCHANGED <<ragvars, svcvars, apivars, views, presses, asks, user_sessions, askhist>>

\* async with bot: await bot.start(DISCORD_BOT_TOKEN)
main_start ==
    /\ startup.pc = "start"
    /\ \E ok \in BOOLEAN :
         startup' = IF ok
                    THEN [startup EXCEPT !.pc = "connected", !.connected = TRUE]
                    ELSE [startup EXCEPT !.pc = "failed"]  \* login failure
    /\ UNCHANGED <<ragvars, svcvars, apivars, views, presses, asks, user_sessions, askhist>>

\* ------------------------------------------- Discord bot: FeedbackView
\* Each reply to /ask carries a FeedbackView with three buttons.
Controls == {1, 2}
MaxPresses == 3         \* button presses dispatched in one run

\* helpful_button, not_helpful_button, escalate_button: the ratings they send
ButtonRatings == {5, 2, 3}

NoView == [made |-> FALSE, query_id |-> UuidText(0, FALSE), disabled |-> FALSE,
           edited |-> FALSE, finished |-> FALSE, sent |-> 0, accepted |-> 0]
\* FeedbackView(result["query_id"], self.api)
FeedbackView(qid) == [NoView EXCEPT !.made = TRUE, !.query_id = UuidText(qid, FALSE)]
NoPress == [pc |-> "idle", ctl |-> 0]

\* variant: no answer raises
raise_for_status_never(status) == TRUE

\* response.raise_for_status(): does the answer pass?
raise_for_status(status) == status < HTTP_BAD_REQUEST

\* A button of control c is pressed while the message shows it enabled and the
\* view is listening: the callback defers and posts the feedback.
view_press(c, s, rating) ==
    /\ views[c].made /\ ~views[c].edited /\ ~views[c].finished
    /\ req[s].pc = "idle" /\ presses[s].pc = "idle"
    /\ quota.feedback > 0
    /\ quota' = [quota EXCEPT !.feedback = @ - 1]
    /\ req' = [req EXCEPT ![s] = FeedbackRequest(views[c].query_id, rating)]
    /\ presses' = [presses EXCEPT ![s] = [pc |-> "waiting", ctl |-> c]]
    /\ views' = [views EXCEPT ![c].sent = @ + 1]
    /\ UNCHANGED <<ragvars, svcvars, startup, asks, user_sessions, askhist, docs, chunks, now, redis, users, logs, feedbacks, nextId>>

\* await self.api.submit_feedback(...) returns or raises
view_response(s) ==
    /\ presses[s].pc = "waiting" /\ req[s].pc = "done"
    /\ req' = [req EXCEPT ![s] = IdleReq]
    /\ LET c == presses[s].ctl
       IN /\ views' = [views EXCEPT ![c].accepted =
                         IF "feedback" \in req[s].persisted THEN @ + 1 ELSE @]
          /\ presses' = [presses EXCEPT ![s] =
                IF raise_for_status(req[s].status)
                THEN [@ EXCEPT !.pc = "followup"]
                ELSE NoPress]    \* "already provided" or handle_api_error
    /\ UNCHANGED <<ragvars, svcvars, startup, asks, user_sessions, askhist, docs, chunks, now, redis, users, logs, feedbacks, nextId, quota>>

\* await interaction.followup.send("Thank you ..."), then every item is
\* disabled; when the send fails the except branch reports it instead
view_followup(s) ==
    /\ presses[s].pc = "followup"
    /\ \E ok \in BOOLEAN :
         IF ok
         THEN /\ views' = [views EXCEPT ![presses[s].ctl].disabled = TRUE]
              /\ presses' = [presses EXCEPT ![s].pc = "edit"]
         ELSE /\ presses' = [presses EXCEPT ![s] = NoPress]
              /\ UNCHANGED views
    /\ UNCHANGED <<ragvars, svcvars, startup, asks, user_sessions, askhist, apivars>>

\* await interaction.message.edit(view=self)
view_edit(s) ==
    /\ presses[s].pc = "edit"
    /\ \E ok \in BOOLEAN :
         views' = [views EXCEPT ![presses[s].ctl].edited = ok \/ @]
    /\ presses' = [presses EXCEPT ![s] = NoPress]
    /\ UNCHANGED <<ragvars, svcvars, startup, asks, user_sessions, askhist, apivars>>

\* timeout=300 has run out: the view stops listening
view_timeout(c) ==
    /\ views[c].made /\ ~views[c].finished
    /\ views' = [views EXCEPT ![c].finished = TRUE]
    /\ UNCHANGED <<ragvars, svcvars, startup, presses, asks, user_sessions, askhist, apivars>>

\* --------------------------------------------------- Discord bot: /ask
MIN_QUESTION_CHARS == 10     \* if len(question) < 10

\* The questions typed: two that the API accepts, one under ten characters,
\* and one of ten characters or more with fewer than three words.
Questions ==
    { <<"what", "is", "policy">>,
      <<"when", "is", "audit">>,
      <<WS, "hello", WS>>,
      <<"hello", "everybody">> }

\* len(question): the characters of the tokens and one separator between
\* two tokens that are both words
RECURSIVE len(_)
len(q) ==
    IF q = <<>> THEN 0
    ELSE Len(Head(q)) + len(Tail(q))
         + (IF Len(q) > 1 /\ q[1] # WS /\ q[2] # WS THEN 1 ELSE 0)

NoAsk == [pc |-> "idle", user |-> "", query_id |-> Null]
NoHist == [returned |-> <<>>, delivered |-> Null]

\* variant: one entry shared by all users
session_key_shared(user) == "u1"

\* user_id = str(interaction.user.id): the key of the user's entry
session_key(user) == user

\* /ask up to the call of the API: a short question is turned down at once,
\* any other is posted with the user's entry as session_id.
ask_compliance(s, d, question) ==
    /\ req[s].pc = "idle" /\ asks[s].pc = "idle"
    /\ quota.query[d] > 0
    /\ quota' = [quota EXCEPT !.query[d] = @ - 1]
    /\ IF len(question) < MIN_QUESTION_CHARS
       THEN UNCHANGED <<req, asks>>
       ELSE /\ req' = [req EXCEPT ![s] = QueryRequest(d, question)]
            /\ asks' = [asks EXCEPT ![s] = [NoAsk EXCEPT !.pc = "waiting", !.user = d]]
    /\ UNCHANGED <<ragvars, svcvars, startup, views, presses, user_sessions, askhist,
                   docs, chunks, now, redis, users, logs, feedbacks, nextId>>

\* result = await self.api.submit_query(...) returns or raises;
\* self.user_sessions[user_id] = result["query_id"]
ask_result(s) ==
    /\ asks[s].pc = "waiting" /\ req[s].pc = "done"
    /\ req' = [req EXCEPT ![s] = IdleReq]
    /\ LET d == asks[s].user
       IN IF raise_for_status(req[s].status)
          THEN /\ user_sessions' =
                    [user_sessions EXCEPT ![session_key(d)] = req[s].qid]
               /\ askhist' = [askhist EXCEPT ![d].returned = Append(@, req[s].qid)]
               /\ asks' = [asks EXCEPT ![s].pc = "reply", ![s].query_id = req[s].qid]
          ELSE /\ asks' = [asks EXCEPT ![s] = NoAsk]   \* handle_api_error
               /\ UNCHANGED <<user_sessions, askhist>>
    /\ UNCHANGED <<ragvars, svcvars, startup, views, presses,
                   docs, chunks, now, redis, users, logs, feedbacks, nextId, quota>>

\* the embed is built, view = FeedbackView(result["query_id"], self.api),
\* await interaction.followup.send(embed=embed, view=view): sent, or refused
\* by Discord (then the except branch reports an error to the user)
ask_reply(s) ==
    /\ asks[s].pc = "reply"
    /\ asks' = [asks EXCEPT ![s] = NoAsk]
    /\ LET d == asks[s].user
           qid == asks[s].query_id     \* result["query_id"]
           free == {c \in Controls : ~views[c].made}
       IN \E ok \in BOOLEAN :
            IF ok
            THEN /\ askhist' = [askhist EXCEPT ![d].delivered = qid]
                 /\ views' = IF free = {} THEN views
                             ELSE [views EXCEPT
                                     ![CHOOSE c \in free : \A c2 \in free : c <= c2] =
                                         FeedbackView(qid)]
            ELSE UNCHANGED <<askhist, views>>
    /\ UNCHANGED <<ragvars, svcvars, startup, presses, user_sessions, apivars>>

\* The bot process before it has done anything.
BotIdle ==
    /\ startup = IdleStartup
    /\ views = [c \in Controls |-> NoView]
    /\ presses = [s \in Slots |-> NoPress]
    /\ asks = [s \in Slots |-> NoAsk]
    /\ user_sessions = [d \in DiscordIds |-> Null]
    /\ askhist = [d \in DiscordIds |-> NoHist]

\* ---------------------------------------------------------- get_session
\* The dependency that hands each request its database session.
HandlerExceptions == {"HTTPException", "IntegrityError"}
COMMIT_ERROR == "DBAPIError"
CANCELLED == "CancelledError"     \* a BaseException, not an Exception

NoSession == [pc |-> "idle", held |-> FALSE, txn |-> "none", events |-> <<>>,
              outcome |-> "", exc |-> "", out |-> ""]

\* variant: close() gives a connection back whether or not one is held
session_close_unconditional(sess) ==
    [sess EXCEPT !.held = FALSE, !.events = @ \o <<"release">>]

\* AsyncSession.close(): an open transaction is rolled back, a held
\* connection goes back to the pool; on a closed session it does nothing.
session_close(sess) ==
    [sess EXCEPT !.held = FALSE,
                 !.txn = IF @ = "active" THEN "rolledback" ELSE @,
                 !.events = @ \o (IF sess.txn = "active" THEN <<"rollback">> ELSE <<>>)
                              \o (IF sess.held THEN <<"release">> ELSE <<>>)]

\* async with async_session_factory() as session: ... yield session
get_session_enter(s) ==
    /\ dbsess[s].pc = "idle"
    /\ dbsess' = [dbsess EXCEPT ![s] =
         [NoSession EXCEPT !.pc = "handler", !.held = TRUE, !.txn = "active"]]
    /\ UNCHANGED <<ragvars, apivars, botvars, grok>>

\* the handler returns, raises, or is cancelled at an await
handler_ends(s) ==
    /\ dbsess[s].pc = "handler"
    /\ \/ dbsess' = [dbsess EXCEPT ![s].pc = "commit", ![s].outcome = "return"]
       \/ \E e \in HandlerExceptions :
            dbsess' = [dbsess EXCEPT ![s].pc = "rollback", ![s].outcome = "raise",
                                     ![s].exc = e]
       \/ dbsess' = [dbsess EXCEPT ![s].pc = "close", ![s].outcome = "raise",
                                   ![s].exc = CANCELLED]
    /\ UNCHANGED <<ragvars, apivars, botvars, grok>>

\* await session.commit()
get_session_commit(s) ==
    /\ dbsess[s].pc = "commit"
    /\ \E ok \in BOOLEAN :
         dbsess' = [dbsess EXCEPT ![s] =
            IF ok
            THEN [@ EXCEPT !.pc = "close", !.txn = "committed",
                           !.events = Append(@, "commit")]
            ELSE [@ EXCEPT !.pc = "rollback", !.exc = COMMIT_ERROR,
                           !.events = Append(@, "commit")]]
    /\ UNCHANGED <<ragvars, apivars, botvars, grok>>

\* except Exception: await session.rollback(); raise
get_session_rollback(s) ==
    /\ dbsess[s].pc = "rollback"
    /\ dbsess' = [dbsess EXCEPT ![s].pc = "close", ![s].txn = "rolledback",
                                ![s].events = Append(@, "rollback")]
    /\ UNCHANGED <<ragvars, apivars, botvars, grok>>

\* finally: await session.close()
get_session_close(s) ==
    /\ dbsess[s].pc = "close"
    /\ dbsess' = [dbsess EXCEPT ![s] = [session_close(@) EXCEPT !.pc = "aexit"]]
    /\ UNCHANGED <<ragvars, apivars, botvars, grok>>

\* leaving the async with block closes the session once more; the pending
\* exception, if any, goes on to the caller
get_session_exit(s) ==
    /\ dbsess[s].pc = "aexit"
    /\ dbsess' = [dbsess EXCEPT ![s] =
         [session_close(@) EXCEPT !.pc = "exited", !.out = dbsess[s].exc]]
    /\ UNCHANGED <<ragvars, apivars, botvars, grok>>

\* ------------------------------------------ grok4_rag_service
\* The text the model sends back is a sequence of pieces: a complete JSON
\* text, an opening or closing code fence, whitespace, or "x", one character
\* that belongs to no JSON text.
FENCE_JSON == "<fence>json"   \* three backticks and json
FENCE == "<fence>"            \* three backticks
JsonTexts == {"{c:0.9}", "{c:0.3}", "{c:95}", "{c:-1}", "{}", "{c:high}", "[]",
              "{c:0.85}", "{c:0.6}"}

Contents ==
    { <<"{c:0.9}">>, <<"{c:0.3}">>, <<"{c:95}">>, <<"{c:-1}">>, <<"{}">>,
      <<"{c:0.85}">>, <<"{c:0.6}">>,
      <<"{c:high}">>, <<"[]">>, <<"x">>,
      <<"x", FENCE_JSON, WS, "{c:0.9}", WS, FENCE>>,
      <<FENCE_JSON, "x", FENCE>>,
      <<FENCE_JSON, "{c:0.9}">>,
      <<FENCE_JSON, "{c:0.9}", "x">> }

Number(n) == [type |-> "number", val |-> n]
NoValue == [type |-> "missing", val |-> 0]
JsonError == [type |-> "error", conf |-> NoValue]
JsonDict(conf) == [type |-> "dict", conf |-> conf]

\* the value a JSON text stands for
JsonValue(text) ==
    CASE text = "{c:0.9}" -> JsonDict(Number(90))
      [] text = "{c:0.85}" -> JsonDict(Number(HIGH_CONFIDENCE))
      [] text = "{c:0.6}" -> JsonDict(Number(MEDIUM_CONFIDENCE))
      [] text = "{c:0.3}" -> JsonDict(Number(30))
      [] text = "{c:95}" -> JsonDict(Number(95 * SCORE_UNIT))
      [] text = "{c:-1}" -> JsonDict(Number(0 - SCORE_UNIT))
      [] text = "{}" -> JsonDict(NoValue)
      [] text = "{c:high}" -> JsonDict([type |-> "str", val |-> 0])
      [] OTHER -> [type |-> "list", conf |-> NoValue]

\* json.loads: one JSON text, whitespace around it allowed
json_loads(content) ==
    LET t == strip(content)
    IN IF Len(t) = 1 /\ t[1] \in JsonTexts THEN JsonValue(t[1]) ELSE JsonError

NotFound == 0
\* str.find(sub, start) for a sub that is one of the pieces in subs
find(content, subs, start) ==
    LET hits == {i \in start..Len(content) : content[i] \in subs}
    IN IF hits = {} THEN NotFound ELSE CHOOSE i \in hits : \A j \in hits : i <= j

\* text[:-1]: the text without its last character
drop_last_char(text) ==
    IF text = <<>> THEN <<>>
    ELSE SubSeq(text, 1, Len(text) - 1)
         \o (IF text[Len(text)] \in {WS, "x"} THEN <<>> ELSE <<"x">>)

\* step 4 of ask_compliance: json.loads(content), and when that fails and
\* the text holds the fence with json, json.loads of what stands between
\* that fence and the next one
parse_response(content) ==
    LET direct == json_loads(content)
        json_start == find(content, {FENCE_JSON}, 1) + 1
        json_end == find(content, {FENCE, FENCE_JSON}, json_start)
        rest == SubSeq(content, json_start, Len(content))
        inner == IF json_end = NotFound THEN drop_last_char(rest)
                 ELSE SubSeq(content, json_start, json_end - 1)
    IN IF direct.type # "error" THEN direct
       ELSE IF find(content, {FENCE_JSON}, 1) # NotFound THEN json_loads(inner)
       ELSE JsonError

\* What the provider call comes to: an exception, a message without content,
\* or a message with a text.
ProviderOutcomes ==
    {[kind |-> k, content |-> <<>>] : k \in {"raise", "none"}}
      \cup {[kind |-> "content", content |-> c] : c \in Contents}

\* The exception raised inside the try block, "" when there is none.
raised_in_try(retrieval_ok, provider) ==
    IF ~retrieval_ok THEN "RetrievalError"
    ELSE IF provider.kind = "raise" THEN "ProviderError"
    ELSE IF provider.kind = "none" THEN "TypeError"            \* len(None)
    ELSE LET data == parse_response(provider.content)
         IN IF data.type = "error" THEN "JSONDecodeError"
            ELSE IF data.type # "dict" THEN "AttributeError"   \* list.get
            ELSE IF data.conf.type = "str" THEN "TypeError"    \* "high" >= 0.85
            ELSE ""

\* variant: the clause except json.JSONDecodeError matches nothing
is_json_decode_error_never(exc) == FALSE

\* except json.JSONDecodeError as e
is_json_decode_error(exc) == exc = "JSONDecodeError"

\* the three except clauses of ask_compliance, in their order
raised_to_caller(exc) ==
    IF exc = "ModelNotAvailableException"
    THEN [status |-> HTTP_UNAVAILABLE, code |-> "MODEL_UNAVAILABLE", stage |-> ""]
    ELSE IF is_json_decode_error(exc)
    THEN [status |-> HTTP_UNPROCESSABLE, code |-> "PROCESSING_ERROR",
          stage |-> "json_parsing"]
    ELSE [status |-> HTTP_UNAVAILABLE, code |-> "MODEL_UNAVAILABLE", stage |-> ""]

\* step 5: confidence_score = data.get("confidence", 0.5)
confidence_score(data) ==
    IF data.conf.type = "missing" THEN DEFAULT_CONFIDENCE ELSE data.conf.val

\* process_query step 5 with ask_compliance spelled out: _get_client() before
\* the try block, then retrieval, the provider call and the parsing inside it.
process_query_ask_compliance(s) ==
    /\ req[s].kind = "query" /\ req[s].pc = "llm"
    /\ IF ~grok.client /\ ~grok.api_key
       THEN /\ req' = [req EXCEPT ![s] =
                 Done([@ EXCEPT !.llm = @ + 1, !.trace = Append(@, "llm"), !.cause = "ModelNotAvailableException"],
                      HTTP_UNAVAILABLE, "MODEL_UNAVAILABLE")]
            /\ UNCHANGED grok
       ELSE /\ grok' = [grok EXCEPT !.client = TRUE]
            /\ \E retrieval_ok \in BOOLEAN, provider \in ProviderOutcomes :
                 LET exc == raised_in_try(retrieval_ok, provider)
                     e == raised_to_caller(exc)
                     r == [req[s] EXCEPT !.llm = @ + 1, !.trace = Append(@, "llm"), !.cause = exc,
                                         !.content = provider.content]
                 IN req' = [req EXCEPT ![s] =
                      IF exc = ""
                      THEN LET score == confidence_score(parse_response(provider.content))
                           IN [r EXCEPT !.pc = "commit", !.score = score,
                                        !.label = confidence_level(score)]
                      ELSE [Done(r, e.status, e.code) EXCEPT !.op = e.stage]]
    /\ UNCHANGED <<ragvars, dbsess, botvars, docs, chunks, now, redis, users, logs, feedbacks,
                   nextId, quota>>

\* No session handed out.
\* ------------------------------------------------- rag/splitter.py
\* A text is a sequence of characters.
Whitespace == {" ", "\n"}

\* str.strip()
str_strip(text) ==
    LET keep == {i \in 1..Len(text) : text[i] \notin Whitespace}
    IN IF keep = {} THEN <<>>
       ELSE SubSeq(text, CHOOSE i \in keep : \A j \in keep : i <= j,
                         CHOOSE i \in keep : \A j \in keep : i >= j)

\* str.split(sep) with a non-empty separator
RECURSIVE str_split(_, _)
str_split(text, sep) ==
    LET hits == {i \in 1..(Len(text) - Len(sep) + 1) :
                    SubSeq(text, i, i + Len(sep) - 1) = sep}
    IN IF hits = {} THEN <<text>>
       ELSE LET i == CHOOSE h \in hits : \A g \in hits : h <= g
            IN <<SubSeq(text, 1, i - 1)>>
                 \o str_split(SubSeq(text, i + Len(sep), Len(text)), sep)

\* self.separators: paragraphs, lines, sentences, words, characters
SEPARATORS == << <<"\n", "\n">>, <<"\n">>, <<".", " ">>, <<" ">>, <<>> >>
DEFAULT_CHUNK_SIZE == 512
DEFAULT_CHUNK_OVERLAP == 50
CHARS_PER_TOKEN == 4

\* RecursiveTextSplitter(chunk_size, chunk_overlap): 0 stands for None, and
\* "x or default" takes the environment's value for None and for 0 alike
RecursiveTextSplitter(chunk_size, chunk_overlap) ==
    [chunk_size |-> IF chunk_size # 0 THEN chunk_size ELSE ragenv.CHUNK_SIZE,
     chunk_overlap |-> IF chunk_overlap # 0 THEN chunk_overlap
                       ELSE ragenv.CHUNK_OVERLAP]

RECURSIVE split_by_separators(_, _)
split_by_separators(text, separators) ==
    IF separators = <<>> THEN <<text>>
    ELSE LET separator == Head(separators)
             splits == IF separator # <<>> THEN str_split(text, separator)
                       ELSE [i \in 1..Len(text) |-> <<text[i]>>]
             kept == [i \in 1..Len(splits) |->
                        IF splits[i] = <<>> THEN <<>>
                        ELSE IF i < Len(splits) /\ separator # <<>>
                        THEN splits[i] \o separator
                        ELSE splits[i]]
         IN IF Len(splits) > 1
            THEN SelectSeq(kept, LAMBDA piece : piece # <<>>)
            ELSE split_by_separators(text, Tail(separators))

get_overlap(text, chunk_overlap) ==
    LET overlap_chars == chunk_overlap * CHARS_PER_TOKEN
    IN IF Len(text) <= overlap_chars THEN text
       ELSE LET overlap == SubSeq(text, Len(text) - overlap_chars + 1, Len(text))
                spaces == {i \in 1..Len(overlap) : overlap[i] = " "}
                \* overlap.find(" "), counted from 0
                first_space == IF spaces = {} THEN -1
                               ELSE (CHOOSE i \in spaces : \A j \in spaces : i <= j) - 1
            IN IF first_space > 0
               THEN SubSeq(overlap, first_space + 2, Len(overlap))
               ELSE overlap

\* the loop of split_text over the pieces
RECURSIVE split_loop(_, _, _, _)
split_loop(sentences, current_chunk, out, splitter) ==
    LET emitted == IF current_chunk # <<>>
                   THEN Append(out, str_strip(current_chunk)) ELSE out
    IN IF sentences = <<>> THEN emitted
       ELSE LET sentence == Head(sentences)
            IN IF Len(current_chunk) \div CHARS_PER_TOKEN
                    + Len(sentence) \div CHARS_PER_TOKEN <= splitter.chunk_size
               THEN split_loop(Tail(sentences), current_chunk \o sentence, out, splitter)
               ELSE split_loop(Tail(sentences),
                               get_overlap(current_chunk, splitter.chunk_overlap)
                                 \o sentence,
                               emitted, splitter)

split_text(text, splitter) ==
    IF text = <<>> \/ str_strip(text) = <<>> THEN <<>>
    ELSE split_loop(split_by_separators(text, SEPARATORS), <<>>, <<>>, splitter)

\* -------------------------------------------------- rag/embedder.py
DEFAULT_EMBED_DIM == 384     \* os.getenv("EMBED_DIM", "384")
DEFAULT_TOP_K == 5           \* os.getenv("TOP_K_RAG", "5")
MODEL_DIM == 384             \* thenlper/gte-small (384-dim)

\* SentenceTransformer.encode(text): a vector of the model's dimension; its
\* values are not modelled (1 stands for any float)
encode(text) == [i \in 1..MODEL_DIM |-> 1]

\* [0.0] * self.embed_dim
zero_vector(embed_dim) == [i \in 1..embed_dim |-> 0]

\* not text or not text.strip()
is_blank(text) == text = <<>> \/ str_strip(text) = <<>>

embed_text(text) ==
    IF is_blank(text) THEN zero_vector(ragenv.EMBED_DIM) ELSE encode(text)

embed_texts(texts) ==
    LET non_empty == {i \in 1..Len(texts) : ~is_blank(texts[i])}
        empty_indices == (1..Len(texts)) \ non_empty
        texts_to_embed == SelectSeq(texts, LAMBDA t : ~is_blank(t))
        embeddings == [k \in 1..Len(texts_to_embed) |-> encode(texts_to_embed[k])]
    IN IF texts = <<>> THEN <<>>
       ELSE IF non_empty = {}
       THEN [i \in 1..Len(texts) |-> zero_vector(ragenv.EMBED_DIM)]
       ELSE [i \in 1..Len(texts) |->
               IF i \in empty_indices THEN zero_vector(ragenv.EMBED_DIM)
               ELSE embeddings[Cardinality({j \in non_empty : j <= i})]]

\* ----------------------------------------------------- RAG calls
\* text: the text handed to the splitter; wrote: the keys written by the
\* call; seen: the keys written when a text was first ingested under a
\* document id and the number of its ingestions (kept over the calls);
\* steps: the searches and the fusion a retrieval has run; legs: the result
\* lists of its vector search and of its keyword pass
NoCall == [op |-> "none", args |-> <<>>, result |-> <<>>, raised |-> "",
           status |-> "", reason |-> "", text |-> <<>>, wrote |-> {},
           seen |-> <<>>, steps |-> <<>>, legs |-> <<>>]
DefaultEnv == [CHUNK_SIZE |-> DEFAULT_CHUNK_SIZE,
               CHUNK_OVERLAP |-> DEFAULT_CHUNK_OVERLAP,
               EMBED_DIM |-> DEFAULT_EMBED_DIM,
               TOP_K_RAG |-> DEFAULT_TOP_K]

RagIdle ==
    /\ vstore = <<>>
    /\ ragenv = DefaultEnv
    /\ rag = NoCall

\* splitter.split_text(text) of a splitter built with the two arguments
call_split_text(text, chunk_size, chunk_overlap) ==
    /\ rag.op = "none"
    /\ rag' = [NoCall EXCEPT
                 !.op = "split_text",
                 !.args = <<text, chunk_size, chunk_overlap>>,
                 !.result = split_text(text,
                               RecursiveTextSplitter(chunk_size, chunk_overlap))]
    /\ UNCHANGED <<apivars, botvars, svcvars, vstore, ragenv>>

call_embed_text(text) ==
    /\ rag.op = "none"
    /\ rag' = [NoCall EXCEPT !.op = "embed_text", !.args = <<text>>,
                             !.result = embed_text(text)]
    /\ UNCHANGED <<apivars, botvars, svcvars, vstore, ragenv>>

call_embed_texts(texts) ==
    /\ rag.op = "none"
    /\ rag' = [NoCall EXCEPT !.op = "embed_texts", !.args = <<texts>>,
                             !.result = embed_texts(texts)]
    /\ UNCHANGED <<apivars, botvars, svcvars, vstore, ragenv>>

\* the caller takes the result
call_return ==
    /\ rag.op # "none"
    /\ rag' = [NoCall EXCEPT !.seen = rag.seen]
    /\ UNCHANGED <<apivars, botvars, svcvars, vstore, ragenv>>

\* ----------------------------------------------------- rag/store.py
INDEX_NAME == "compliance_docs"
CHUNK_ID_CHARS == 100            \* chunk['text'][:100]

\* variant: the identifier also depends on the time of the ingestion
generate_chunk_id_dated(chunk) ==
    sha256(<<chunk.metadata.document_id, ":", ToString(chunk.metadata.chunk_index),
             ":", ToString(chunk.metadata.ingested_at)>>)

\* _generate_chunk_id: sha256 of "document_id:chunk_index:text[:100]"; the
\* cut of the digest to 16 hex characters is taken to keep it injective
generate_chunk_id(chunk) ==
    sha256(<<chunk.metadata.document_id, ":", ToString(chunk.metadata.chunk_index),
             ":">> \o SubSeq(chunk.text, 1,
                             IF Len(chunk.text) < CHUNK_ID_CHARS
                             THEN Len(chunk.text) ELSE CHUNK_ID_CHARS))

\* key = f"{self.index_name}:{chunk_id}"
chunk_key(chunk) == <<INDEX_NAME, ":">> \o generate_chunk_id(chunk)

\* the mapping written by pipeline.hset(key, mapping=data)
chunk_data(chunk) ==
    [chunk_text |-> chunk.text, embedding |-> chunk.embedding,
     document_id |-> chunk.metadata.document_id,
     document_title |-> chunk.metadata.document_title,
     source |-> chunk.metadata.source,
     chunk_index |-> chunk.metadata.chunk_index,
     document_type |-> chunk.metadata.document_type,
     category |-> chunk.metadata.category]

\* variant: the hashes of the documents being written are deleted first
add_chunks_replacing(store, chunk_dicts) ==
    LET written == {chunk_dicts[i].metadata.document_id : i \in 1..Len(chunk_dicts)}
        kept == {k \in DOMAIN store : store[k].document_id \notin written}
        keys == {chunk_key(chunk_dicts[i]) : i \in 1..Len(chunk_dicts)}
    IN [k \in kept \cup keys |->
          IF k \in keys
          THEN chunk_data(CHOOSE c \in {chunk_dicts[i] : i \in 1..Len(chunk_dicts)} :
                             chunk_key(c) = k)
          ELSE store[k]]

\* add_chunks: the hashes of the store after the pipeline has run; a later
\* HSET on a key replaces the fields of an earlier one
add_chunks(store, chunk_dicts) ==
    LET keys == {chunk_key(chunk_dicts[i]) : i \in 1..Len(chunk_dicts)}
        last(k) == CHOOSE i \in 1..Len(chunk_dicts) :
                      /\ chunk_key(chunk_dicts[i]) = k
                      /\ \A j \in 1..Len(chunk_dicts) :
                           chunk_key(chunk_dicts[j]) = k => j <= i
    IN [k \in DOMAIN store \cup keys |->
          IF k \in keys THEN chunk_data(chunk_dicts[last(k)]) ELSE store[k]]

\* info["num_docs"]
count_chunks(store) == Cardinality(DOMAIN store)

\* ---------------------------------------------------- rag/ingest.py
\* variant: the pipeline goes on with an empty chunk list
no_chunks_never(chunk_list) == FALSE
\* if not chunks:
no_chunks(chunk_list) == chunk_list = <<>>

\* _extract_text_from_pdf: the texts of the pages that have one, joined by
\* "\n\n"
RECURSIVE extract_text_from_pdf(_)
extract_text_from_pdf(pages) ==
    LET text_parts == SelectSeq(pages, LAMBDA page_text : page_text # <<>>)
    IN IF text_parts = <<>> THEN <<>>
       ELSE IF Len(text_parts) = 1 THEN text_parts[1]
       ELSE text_parts[1] \o <<"\n", "\n">> \o extract_text_from_pdf(Tail(text_parts))

\* steps 3 to 6 of ingest_document, 1 to 4 of ingest_text: the result dict
\* and the store afterwards
ingest_pipeline(text, document_id, document_type, source) ==
    LET chunk_list == split_text(text, RecursiveTextSplitter(0, 0))
        embeddings == embed_texts(chunk_list)
        chunk_dicts == [i \in 1..Len(chunk_list) |->
            [text |-> chunk_list[i], embedding |-> embeddings[i],
             metadata |-> [document_id |-> document_id,
                           document_title |-> document_id,
                           document_type |-> document_type,
                           category |-> "compliance", source |-> source,
                           chunk_index |-> i - 1,
                           total_chunks |-> Len(chunk_list),
                           ingested_at |-> now]]]
        keys == {chunk_key(chunk_dicts[i]) : i \in 1..Len(chunk_dicts)}
        this == <<text, document_id>>
    IN IF no_chunks(chunk_list)
       THEN [call |-> [NoCall EXCEPT !.status = "failed",
                                     !.reason = "no_chunks_generated",
                                     !.result = <<0>>, !.text = text,
                                     !.seen = rag.seen],
             store |-> vstore]
       ELSE [call |-> [NoCall EXCEPT
                          !.status = "success", !.result = <<Len(chunk_dicts)>>,
                          !.text = text, !.wrote = keys,
                          !.seen = [p \in DOMAIN rag.seen \cup {this} |->
                                      IF p # this THEN rag.seen[p]
                                      ELSE IF p \in DOMAIN rag.seen
                                      THEN [rag.seen[p] EXCEPT !.times = @ + 1]
                                      ELSE [keys |-> keys, times |-> 1]]],
             store |-> add_chunks(vstore, chunk_dicts)]

\* await ingest_text(text, document_id)
ingest_text(text, document_id) ==
    /\ rag.op = "none"
    /\ quota.rag > 0
    /\ quota' = [quota EXCEPT !.rag = @ - 1]
    /\ LET r == ingest_pipeline(text, document_id, "policy", "direct_input")
       IN /\ rag' = [r.call EXCEPT !.op = "ingest_text",
                                   !.args = <<text, document_id>>]
          /\ vstore' = r.store
    /\ UNCHANGED <<botvars, svcvars, ragenv, now, redis, users, logs, feedbacks,
                   nextId, docs, chunks, req>>

\* await ingest_document(source_url, document_id): the download fails, the
\* content is no PDF, or the PDF has the given page texts
ingest_document(pdf, document_id) ==
    /\ rag.op = "none"
    /\ quota.rag > 0
    /\ quota' = [quota EXCEPT !.rag = @ - 1]
    /\ IF pdf.error # ""
       THEN /\ rag' = [NoCall EXCEPT !.op = "ingest_document",
                                     !.args = <<pdf, document_id>>,
                                     !.raised = pdf.error, !.seen = rag.seen]
            /\ UNCHANGED vstore
       ELSE LET r == ingest_pipeline(extract_text_from_pdf(pdf.pages),
                                     document_id, "regulation", "url")
            IN /\ rag' = [r.call EXCEPT !.op = "ingest_document",
                                        !.args = <<pdf, document_id>>]
               /\ vstore' = r.store
    /\ UNCHANGED <<botvars, svcvars, ragenv, now, redis, users, logs, feedbacks,
                   nextId, docs, chunks, req>>

\* ---------------------------------------- VectorStore.search
\* What client.ft(index).search does: it answers, or raises one of the
\* errors of redis-py (ResponseError, ConnectionError and TimeoutError are
\* separate subclasses of RedisError).
SearchOutcomes == {"ok", "ResponseError", "ConnectionError", "TimeoutError"}

\* except redis.ResponseError as e:
caught_by_search(error) == error = "ResponseError"

\* The orders in which a KNN query can list the stored chunks: the distances
\* depend on the embedding values, which are not modelled.
Rankings(store) ==
    {f \in [1..Cardinality(DOMAIN store) -> DOMAIN store] :
        \A i, j \in DOMAIN f : f[i] = f[j] => i = j}

\* search(query_embedding, top_k): [result, raised]; knn is the order of the
\* index for this query; the score is the distance reported by Redis
search(store, knn, top_k, outcome) ==
    IF outcome = "ok"
    THEN [result |-> [i \in 1..(IF Len(knn) < top_k THEN Len(knn) ELSE top_k) |->
                        [text |-> store[knn[i]].chunk_text,
                         document_id |-> store[knn[i]].document_id,
                         document_title |-> store[knn[i]].document_title,
                         source |-> store[knn[i]].source,
                         chunk_index |-> store[knn[i]].chunk_index,
                         score |-> <<i, 1>>]],
          raised |-> ""]
    ELSE IF caught_by_search(outcome) THEN [result |-> <<>>, raised |-> ""]
    ELSE [result |-> <<>>, raised |-> outcome]

\* vector_store.search(...) called on its own
call_search(knn, top_k, outcome) ==
    /\ rag.op = "none"
    /\ quota.rag > 0
    /\ quota' = [quota EXCEPT !.rag = @ - 1]
    /\ LET r == search(vstore, knn, top_k, outcome)
       IN rag' = [NoCall EXCEPT !.op = "search", !.args = <<top_k, outcome>>,
                                !.result = r.result, !.raised = r.raised,
                                !.seen = rag.seen]
    /\ UNCHANGED <<botvars, svcvars, ragenv, vstore, now, redis, users, logs,
                   feedbacks, nextId, docs, chunks, req>>

\* ------------------------------------------------- rag/retriever.py
RRF_K == 60                  \* k: int = 60
VECTOR_WEIGHT == 7           \* vector_weight = 0.7, in tenths
BM25_WEIGHT == 3             \* bm25_weight = 0.3, in tenths

\* str.lower() on the characters of the model
lower(text) == [i \in 1..Len(text) |-> IF text[i] = "A" THEN "a" ELSE text[i]]

\* set(str.split()): the words between runs of whitespace
words(text) ==
    {SubSeq(text, i, j) : i \in 1..Len(text), j \in 1..Len(text)} \cap
    {w \in UNION {[1..n -> {text[k] : k \in 1..Len(text)} \ Whitespace] :
                    n \in 1..Len(text)} :
        \E i \in 1..Len(text) :
            /\ i + Len(w) - 1 <= Len(text)
            /\ SubSeq(text, i, i + Len(w) - 1) = w
            /\ (i = 1 \/ text[i - 1] \in Whitespace)
            /\ (i + Len(w) - 1 = Len(text) \/ text[i + Len(w)] \in Whitespace)}

\* the comparison turned round: an ascending sort
more_reversed(x, y) ==
    IF x[2] = y[2] THEN y[1] > x[1] ELSE y[1] * x[2] > x[1] * y[2]

\* a score is a fraction <<numerator, denominator>>
more(x, y) ==
    IF x[2] = y[2] THEN x[1] > y[1] ELSE x[1] * y[2] > y[1] * x[2]

\* list.sort(key=score, reverse=True): descending and stable
sort_by_score(results) ==
    LET place(i) == 1 + Cardinality({j \in 1..Len(results) :
                       \/ more(results[j].score, results[i].score)
                       \/ (~more(results[i].score, results[j].score) /\ j < i)})
    IN [r \in 1..Len(results) |->
          results[CHOOSE i \in 1..Len(results) : place(i) = r]]

\* _bm25_search: a second search with a zero vector, scored by the share of
\* the query's words found in the chunk
bm25_search(query, store, knn, top_k, outcome) ==
    LET query_tokens == words(lower(query))
        found == search(store, knn, top_k * 3, outcome)
        overlap(r) == Cardinality(query_tokens \cap words(lower(r.text)))
        hits == SelectSeq(found.result, LAMBDA r : overlap(r) > 0)
        scored == [i \in 1..Len(hits) |->
                     [hits[i] EXCEPT !.score =
                        <<overlap(hits[i]), Cardinality(query_tokens)>>]]
        sorted == sort_by_score(scored)
    IN [result |-> SubSeq(sorted, 1, IF Len(sorted) < top_k THEN Len(sorted)
                                     ELSE top_k),
        raised |-> found.raised]

\* _reciprocal_rank_fusion: every result at rank r adds weight / (k + r) to
\* the score of its document_id + chunk_index; sorted by that score
reciprocal_rank_fusion(results_a, results_b, weight_a, weight_b) ==
    LET \* result.get("document_id", "") + str(result.get("chunk_index", 0))
        doc_id(r) == r.document_id \o ToString(r.chunk_index)
        all == results_a \o results_b
        \* doc_map keeps the first result of every id, in insertion order
        firsts == {i \in 1..Len(all) :
                     \A j \in 1..(i - 1) : doc_id(all[j]) # doc_id(all[i])}
        nth(n) == CHOOSE i \in firsts : Cardinality({j \in firsts : j <= i}) = n
        longest == IF Len(results_a) > Len(results_b) THEN Len(results_a)
                   ELSE Len(results_b)
        \* common denominator of the terms 1 / (k + rank)
        RECURSIVE product(_)
        product(r) == IF r = 0 THEN 1 ELSE (RRF_K + r) * product(r - 1)
        RECURSIVE sum(_, _, _)
        sum(results, weight, id) ==
            IF results = <<>> THEN 0
            ELSE sum(SubSeq(results, 1, Len(results) - 1), weight, id)
                 + (IF doc_id(results[Len(results)]) = id
                    THEN weight * (product(longest) \div (RRF_K + Len(results)))
                    ELSE 0)
        rrf_score(id) == <<sum(results_a, weight_a, id) + sum(results_b, weight_b, id),
                           10 * product(longest)>>
    IN sort_by_score([n \in 1..Cardinality(firsts) |->
          [all[nth(n)] EXCEPT !.score = rrf_score(doc_id(all[nth(n)]))]])

\* the keyword pass runs for every query
needs_keyword_always(vector_results, top_k) == TRUE

\* if len(vector_results) < top_k:
needs_keyword(vector_results, top_k) == Len(vector_results) < top_k

\* hybrid_retrieve(query): knn_a and knn_b are the orders in which the index
\* lists its chunks for the query vector and for the zero vector
hybrid_retrieve(query, outcome_a, knn_a, outcome_b, knn_b) ==
    /\ rag.op = "none"
    /\ quota.rag > 0
    /\ quota' = [quota EXCEPT !.rag = @ - 1]
    /\ LET top_k == ragenv.TOP_K_RAG
           call == [NoCall EXCEPT !.op = "hybrid_retrieve",
                                  !.args = <<query, outcome_a, outcome_b>>,
                                  !.seen = rag.seen]
           vector_results == search(vstore, knn_a, top_k * 2, outcome_a)
           bm25_results ==
               IF needs_keyword(vector_results.result, top_k)
               THEN bm25_search(query, vstore, knn_b, top_k * 2, outcome_b)
               ELSE [result |-> <<>>, raised |-> ""]
           fused_results ==
               IF bm25_results.result # <<>>
               THEN reciprocal_rank_fusion(vector_results.result, bm25_results.result,
                                           VECTOR_WEIGHT, BM25_WEIGHT)
               ELSE vector_results.result
       IN rag' =
            IF vector_results.raised # ""
            THEN [call EXCEPT !.raised = vector_results.raised,
                              !.steps = <<"vector">>]
            ELSE IF bm25_results.raised # ""
            THEN [call EXCEPT !.raised = bm25_results.raised,
                              !.steps = <<"vector", "bm25">>]
            ELSE [call EXCEPT
                    !.result = SubSeq(fused_results, 1,
                                      IF Len(fused_results) < top_k
                                      THEN Len(fused_results) ELSE top_k),
                    !.legs = <<vector_results.result, bm25_results.result>>,
                    !.steps = <<"vector">>
                       \o (IF needs_keyword(vector_results.result, top_k)
                           THEN <<"bm25">> ELSE <<>>)
                       \o (IF bm25_results.result # <<>>
                           THEN <<"fusion">> ELSE <<>>)]
    /\ UNCHANGED <<botvars, svcvars, ragenv, vstore, now, redis, users, logs,
                   feedbacks, nextId, docs, chunks, req>>

\* _reciprocal_rank_fusion(results_a, results_b, weight_a, weight_b) called
\* on its own
call_reciprocal_rank_fusion(results_a, results_b, weight_a, weight_b) ==
    /\ rag.op = "none"
    /\ rag' = [NoCall EXCEPT
                 !.op = "reciprocal_rank_fusion",
                 !.args = <<results_a, results_b, weight_a, weight_b>>,
                 !.result = reciprocal_rank_fusion(results_a, results_b,
                                                   weight_a, weight_b)]
    /\ UNCHANGED <<apivars, botvars, svcvars, vstore, ragenv>>

SvcIdle ==
    /\ dbsess = [s \in Slots |-> NoSession]
    /\ grok = [client |-> FALSE, api_key |-> TRUE]

\* ------------------------------------------------------ specifications
NoQuota == [query |-> [d \in DiscordIds |-> 0], update |-> 0, feedback |-> 0,
            gdpr |-> 0, admin |-> 0, retrain |-> 0, history |-> 0,
            health |-> 0, rag |-> 0]

\* The state a run starts in: user u1 has never been seen; user u2 has just
\* sent RATE_LIMIT queries that all failed in the LLM call, so its row exists,
\* its rate-limit key is used up and it has no QueryLog.
InitWith(q) ==
    /\ now = StartTime
    /\ redis = [d \in DiscordIds |->
                 IF d = "u2"
                 THEN [count |-> RATE_LIMIT, exp |-> StartTime + RateTicks,
                       admitted |-> RATE_LIMIT]
                 ELSE NoKey]
    /\ users = {UserRow(1, "u2")}
    /\ logs = {}
    /\ feedbacks = {}
    /\ nextId = [user |-> 1, log |-> 0, fb |-> 0]
    /\ docs = {}
    /\ chunks = {}
    /\ BotIdle
    /\ RagIdle
    /\ SvcIdle
    /\ req = [s \in Slots |-> IdleReq]
    /\ quota = q

QuerySteps(s) ==
    \/ check_rate_limit_incr(s)
    \/ check_rate_limit_expire(s)
    \/ check_rate_limit_ttl(s)
    \/ get_or_create_user_select(s)
    \/ get_or_create_user_insert(s)
    \/ get_or_create_user_refresh(s)
    \/ process_query_dedup(s)
    \/ process_query_llm(s)
    \/ process_query_commit(s)
    \/ Respond(s)

\* SpecRate: _check_rate_limit on its own.  A request that passes the check
\* goes on to the user lookup, which reads and writes no rate-limit state; here
\* it leaves at that point.
AfterRateCheck(s) ==
    /\ req[s].kind = "query" /\ req[s].pc = "select"
    /\ req' = [req EXCEPT ![s] = IdleReq]
    /\ UNCHANGED <<ragvars, svcvars, botvars, docs, chunks, now, redis, users, logs, feedbacks, nextId, quota>>

InitRate ==
    InitWith([NoQuota EXCEPT !.query = [d \in DiscordIds |->
                 IF d = "u1" THEN MaxRateReqs ELSE MaxOtherReqs]])

NextRate ==
    \/ \E s \in Slots, d \in DiscordIds : StartQuery(s, d, <<"what", "is", "policy">>)
    \/ \E s \in Slots : check_rate_limit_incr(s)
    \/ \E s \in Slots : check_rate_limit_expire(s)
    \/ \E s \in Slots : check_rate_limit_ttl(s)
    \/ \E s \in Slots : AfterRateCheck(s)
    \/ \E s \in Slots : Respond(s)
    \/ TickRate

SpecRate == InitRate /\ [][NextRate]_vars

\* SpecRateFair: _check_rate_limit with a Redis whose EXPIRE command can
\* fail.  The event loop runs every handler that can go on, and time
\* passes; whether a request arrives and whether Redis fails is up to the
\* environment.
NextRateFair ==
    \/ NextRate
    \/ \E s \in Slots : check_rate_limit_expire_fails(s)

HandlerRate(s) ==
    \/ check_rate_limit_incr(s)
    \/ check_rate_limit_expire(s)
    \/ check_rate_limit_ttl(s)
    \/ AfterRateCheck(s)
    \/ Respond(s)

\* The run starts when user u1 has sent RATE_LIMIT - 1 requests since the
\* start of its window and the first of them still waits at its expire
\* call; the others have passed the check and left.
InitRateFair ==
    /\ now = StartTime
    /\ redis = [d \in DiscordIds |->
                 IF d = "u2"
                 THEN [count |-> RATE_LIMIT, exp |-> StartTime + RateTicks,
                       admitted |-> RATE_LIMIT]
                 ELSE [count |-> RATE_LIMIT - 1, exp |-> Null,
                       admitted |-> RATE_LIMIT - 2]]
    /\ users = {UserRow(1, "u2")}
    /\ logs = {}
    /\ feedbacks = {}
    /\ nextId = [user |-> 1, log |-> 0, fb |-> 0]
    /\ docs = {}
    /\ chunks = {}
    /\ BotIdle
    /\ RagIdle
    /\ SvcIdle
    /\ req = [s \in Slots |->
                IF s = 1
                THEN [IdleReq EXCEPT !.kind = "query", !.pc = "expire",
                                     !.user_id = "u1",
                                     !.query = <<"what", "is", "policy">>,
                                     !.count = 1,
                                     !.trace = <<"rate_limit">>]
                ELSE IdleReq]
    /\ quota = [NoQuota EXCEPT !.query = [d \in DiscordIds |->
                  IF d = "u1" THEN MaxLateReqs ELSE MaxOtherReqs]]

SpecRateFair ==
    /\ InitRateFair /\ [][NextRateFair]_vars
    /\ \A s \in Slots : WF_vars(HandlerRate(s))
    /\ WF_vars(TickRate)

\* Spec: submit-query requests of two users, the clock, and an administrator
\* changing a user's daily limit.
Init ==
    InitWith([NoQuota EXCEPT
        !.query = [d \in DiscordIds |->
                     IF d = "u1" THEN MaxQueryReqs ELSE MaxOtherReqs],
        !.update = MaxUpdates])

UserIdTexts == {UuidText(u.id, FALSE) : u \in users}

Next ==
    \/ \E s \in Slots, d \in DiscordIds, raw \in RawQueries : StartQuery(s, d, raw)
    \/ \E s \in Slots : QuerySteps(s)
    \/ \E s \in Slots, t \in UserIdTexts, n \in LimitInputs :
         StartUpdate(s, ValidToken, t, n)
    \/ \E s \in Slots : update_user_get(s)
    \/ \E s \in Slots : update_user_commit(s)
    \/ Tick

Spec == Init /\ [][Next]_vars

\* SpecFeedback: queries, feedback and GDPR deletion running side by side at
\* one instant.
InitFeedback ==
    InitWith([NoQuota EXCEPT
        !.query = [d \in DiscordIds |->
                     IF d = "u1" THEN MaxQueryReqs ELSE MaxOtherReqs],
        !.feedback = MaxFeedbackReqs,
        !.gdpr = MaxGdprReqs])

LogIdTexts == {UuidText(l.id, FALSE) : l \in logs}
ConfirmTexts(t) == {t, UuidText(t.uuid, ~t.upper)}

NextFeedback ==
    \/ \E s \in Slots, d \in DiscordIds : StartQuery(s, d, <<"what", "is", "policy">>)
    \/ \E s \in Slots : QuerySteps(s)
    \/ \E s \in Slots, t \in LogIdTexts, n \in Ratings : StartFeedback(s, t, n)
    \/ \E s \in Slots : submit_feedback_get(s)
    \/ \E s \in Slots : submit_feedback_existing(s)
    \/ \E s \in Slots : submit_feedback_commit(s)
    \/ \E s \in Slots, k \in {ValidToken, Header(<<"k", "e", "x">>)},
          t \in UserIdTexts : \E c \in ConfirmTexts(t) : StartGdpr(s, k, t, c)
    \/ \E s \in Slots : gdpr_get(s)
    \/ \E s \in Slots : gdpr_count(s)
    \/ \E s \in Slots : gdpr_delete_feedback(s)
    \/ \E s \in Slots : gdpr_delete_logs(s)
    \/ \E s \in Slots : gdpr_commit(s)

SpecFeedback == InitFeedback /\ [][NextFeedback]_vars

\* SpecAdmin: the seven /admin operations called with every kind of token,
\* next to one query of each user.
InitAdmin ==
    InitWith([NoQuota EXCEPT
        !.query = [d \in DiscordIds |-> MaxOtherReqs],
        !.update = MaxUpdates, !.gdpr = MaxGdprReqs,
        !.admin = MaxAdminReads, !.retrain = MaxRetrains])

NextAdmin ==
    \/ \E s \in Slots, d \in DiscordIds : StartQuery(s, d, <<"what", "is", "policy">>)
    \/ \E s \in Slots : QuerySteps(s)
    \/ \E s \in Slots, k \in Tokens, op \in AdminReadOps : StartAdminRead(s, k, op)
    \/ \E s \in Slots : admin_read(s)
    \/ \E s \in Slots, k \in Tokens, t \in UserIdTexts, n \in LimitInputs :
         StartUpdate(s, k, t, n)
    \/ \E s \in Slots : update_user_get(s)
    \/ \E s \in Slots : update_user_commit(s)
    \/ \E s \in Slots, k \in Tokens, d \in DocumentIds, f \in BOOLEAN :
         StartRetrain(s, k, d, f)
    \/ \E s \in Slots : retrain_select(s)
    \/ \E s \in Slots : retrain_ingest(s)
    \/ \E s \in Slots, k \in Tokens, t \in UserIdTexts : StartGdpr(s, k, t, t)
    \/ \E s \in Slots : gdpr_get(s)
    \/ \E s \in Slots : gdpr_count(s)
    \/ \E s \in Slots : gdpr_delete_feedback(s)
    \/ \E s \in Slots : gdpr_delete_logs(s)
    \/ \E s \in Slots : gdpr_commit(s)

SpecAdmin == InitAdmin /\ [][NextAdmin]_vars

\* SpecBan: ban and unban requests for the registered user, one after the
\* other or concurrently.
InitBan == InitWith([NoQuota EXCEPT !.update = MaxBanUpdates])

NextBan ==
    \/ \E s \in Slots, t \in UserIdTexts, b \in BanInputs, r \in ReasonInputs :
         StartBanUpdate(s, t, b, r)
    \/ \E s \in Slots : update_user_get(s)
    \/ \E s \in Slots : update_user_commit(s)
    \/ \E s \in Slots : Respond(s)
    \/ Tick

SpecBan == InitBan /\ [][NextBan]_vars

\* SpecHealth: probes of /health and /health/ready while the database and the
\* model API are up or down.
InitHealth == InitWith([NoQuota EXCEPT !.health = MaxHealthReqs])

NextHealth ==
    \/ \E s \in Slots, p \in HealthPaths, env \in Environments : StartHealth(s, p, env)
    \/ \E s \in Slots : health_basic(s)
    \/ \E s \in Slots : health_ready(s)
    \/ \E s \in Slots : Respond(s)
    \/ Tick

SpecHealth == InitHealth /\ [][NextHealth]_vars

\* SpecRetrain: re-ingestion requests against a compliance_documents table
\* that holds no row or the row of doc1 (the handler itself never gets a row
\* inserted; rows come from loading the table directly).
InitRetrain ==
    /\ now = StartTime
    /\ redis = [d \in DiscordIds |-> NoKey]
    /\ users = {}
    /\ logs = {}
    /\ feedbacks = {}
    /\ nextId = [user |-> 0, log |-> 0, fb |-> 0]
    /\ docs \in {{}, {DocRow("doc1", 1)}}
    /\ chunks \in {{}, {d.document_id : d \in docs}}
    /\ BotIdle
    /\ RagIdle
    /\ SvcIdle
    /\ req = [s \in Slots |-> IdleReq]
    /\ quota = [NoQuota EXCEPT !.retrain = MaxRetrains + 1]

NextRetrain ==
    \/ \E s \in Slots, k \in Tokens, d \in DocumentIds, f \in BOOLEAN :
         StartRetrain(s, k, d, f)
    \/ \E s \in Slots : retrain_select(s)
    \/ \E s \in Slots : retrain_ingest(s)
    \/ \E s \in Slots : Respond(s)

SpecRetrain == InitRetrain /\ [][NextRetrain]_vars

\* The bot's start-up alone; the API is seen through its /health answers.
ApiIdle ==
    /\ now = StartTime
    /\ redis = [d \in DiscordIds |-> NoKey]
    /\ users = {}
    /\ logs = {}
    /\ feedbacks = {}
    /\ nextId = [user |-> 0, log |-> 0, fb |-> 0]
    /\ docs = {}
    /\ chunks = {}
    /\ req = [s \in Slots |-> IdleReq]
    /\ quota = NoQuota

InitStartup ==
    /\ ApiIdle
    /\ BotIdle
    /\ RagIdle
    /\ SvcIdle

NextStartup ==
    \/ main_health_check
    \/ main_sleep
    \/ main_start

SpecStartup == InitStartup /\ [][NextStartup]_vars

\* Feedback buttons against the feedback handler.  User u2 has asked the same
\* question twice within the deduplication window: one QueryLog, and two reply
\* messages whose controls carry the same query_id.
AskedQuery == <<"what", "is", "policy">>

InitView ==
    /\ now = StartTime
    /\ redis = [d \in DiscordIds |->
                 IF d = "u2"
                 THEN [count |-> 2, exp |-> StartTime + RateTicks, admitted |-> 2]
                 ELSE NoKey]
    /\ users = {[UserRow(1, "u2") EXCEPT !.total_queries = 1, !.queries_today = 1,
                                        !.last_query_at = StartTime]}
    /\ logs = {LogRow(1, 1, sha256(AskedQuery), StartTime)}
    /\ feedbacks = {}
    /\ nextId = [user |-> 1, log |-> 1, fb |-> 0]
    /\ docs = {}
    /\ chunks = {}
    /\ req = [s \in Slots |-> IdleReq]
    /\ quota = [NoQuota EXCEPT !.feedback = MaxPresses]
    /\ RagIdle
    /\ startup = [IdleStartup EXCEPT !.pc = "connected", !.connected = TRUE,
                                     !.replies = <<"healthy">>,
                                     !.began = <<0>>, !.ended = <<0>>]
    /\ views = [c \in Controls |-> FeedbackView(1)]
    /\ presses = [s \in Slots |-> NoPress]
    /\ asks = [s \in Slots |-> NoAsk]
    /\ user_sessions = [d \in DiscordIds |-> IF d = "u2" THEN 1 ELSE Null]
    /\ askhist = [d \in DiscordIds |->
                   IF d = "u2" THEN [returned |-> <<1, 1>>, delivered |-> 1]
                   ELSE NoHist]
    /\ SvcIdle

NextView ==
    \/ \E c \in Controls, s \in Slots, n \in ButtonRatings : view_press(c, s, n)
    \/ \E s \in Slots : submit_feedback_get(s)
    \/ \E s \in Slots : submit_feedback_existing(s)
    \/ \E s \in Slots : submit_feedback_commit(s)
    \/ \E s \in Slots : view_response(s)
    \/ \E s \in Slots : view_followup(s)
    \/ \E s \in Slots : view_edit(s)
    \/ \E c \in Controls : view_timeout(c)

SpecView == InitView /\ [][NextView]_vars

\* /ask commands against the query handler.  User u1 is new; user u2 has sent
\* RATE_LIMIT - 1 queries in the current window that all failed in the LLM call.
InitAsk ==
    /\ now = StartTime
    /\ redis = [d \in DiscordIds |->
                 IF d = "u2"
                 THEN [count |-> RATE_LIMIT - 1, exp |-> StartTime + RateTicks,
                       admitted |-> RATE_LIMIT - 1]
                 ELSE NoKey]
    /\ users = {UserRow(1, "u2")}
    /\ logs = {}
    /\ feedbacks = {}
    /\ nextId = [user |-> 1, log |-> 0, fb |-> 0]
    /\ docs = {}
    /\ chunks = {}
    /\ req = [s \in Slots |-> IdleReq]
    /\ quota = [NoQuota EXCEPT !.query = [d \in DiscordIds |-> MaxQueryReqs]]
    /\ RagIdle
    /\ startup = [IdleStartup EXCEPT !.pc = "connected", !.connected = TRUE,
                                     !.replies = <<"healthy">>,
                                     !.began = <<0>>, !.ended = <<0>>]
    /\ views = [c \in Controls |-> NoView]
    /\ presses = [s \in Slots |-> NoPress]
    /\ asks = [s \in Slots |-> NoAsk]
    /\ user_sessions = [d \in DiscordIds |-> Null]
    /\ askhist = [d \in DiscordIds |-> NoHist]
    /\ SvcIdle

NextAsk ==
    \/ \E s \in Slots, d \in DiscordIds, q \in Questions : ask_compliance(s, d, q)
    \/ \E s \in Slots : check_rate_limit_incr(s)
    \/ \E s \in Slots : check_rate_limit_expire(s)
    \/ \E s \in Slots : check_rate_limit_ttl(s)
    \/ \E s \in Slots : get_or_create_user_select(s)
    \/ \E s \in Slots : get_or_create_user_insert(s)
    \/ \E s \in Slots : get_or_create_user_refresh(s)
    \/ \E s \in Slots : process_query_dedup(s)
    \/ \E s \in Slots : process_query_llm(s)
    \/ \E s \in Slots : process_query_commit(s)
    \/ \E s \in Slots : ask_result(s)
    \/ \E s \in Slots : ask_reply(s)

SpecAsk == InitAsk /\ [][NextAsk]_vars

\* get_session on its own, one session per slot.
InitSession ==
    /\ ApiIdle
    /\ BotIdle
    /\ RagIdle
    /\ SvcIdle

NextSession ==
    \/ \E s \in Slots : get_session_enter(s)
    \/ \E s \in Slots : handler_ends(s)
    \/ \E s \in Slots : get_session_commit(s)
    \/ \E s \in Slots : get_session_rollback(s)
    \/ \E s \in Slots : get_session_close(s)
    \/ \E s \in Slots : get_session_exit(s)

SpecSession == InitSession /\ [][NextSession]_vars

\* The query handler with ask_compliance spelled out.  The database is new;
\* XAI_API_KEY is set or not for the whole run.
InitLlm ==
    /\ now = StartTime
    /\ redis = [d \in DiscordIds |-> NoKey]
    /\ users = {}
    /\ logs = {}
    /\ feedbacks = {}
    /\ nextId = [user |-> 0, log |-> 0, fb |-> 0]
    /\ docs = {}
    /\ chunks = {}
    /\ req = [s \in Slots |-> IdleReq]
    /\ quota = [NoQuota EXCEPT !.query["u1"] = MaxQueryReqs,
                               !.history = MaxHistoryReqs]
    /\ BotIdle
    /\ RagIdle
    /\ dbsess = [s \in Slots |-> NoSession]
    /\ grok \in [client : {FALSE}, api_key : BOOLEAN]

NextLlm ==
    \/ \E s \in Slots, q \in RawQueries : StartQuery(s, "u1", q)
    \/ \E s \in Slots : check_rate_limit_incr(s)
    \/ \E s \in Slots : check_rate_limit_expire(s)
    \/ \E s \in Slots : get_or_create_user_select(s)
    \/ \E s \in Slots : get_or_create_user_insert(s)
    \/ \E s \in Slots : get_or_create_user_refresh(s)
    \/ \E s \in Slots : process_query_dedup(s)
    \/ \E s \in Slots : process_query_ask_compliance(s)
    \/ \E s \in Slots : process_query_commit(s)
    \/ \E s \in Slots, d \in DiscordIds : StartHistory(s, d)
    \/ \E s \in Slots : get_query_history(s)
    \/ \E s \in Slots : Respond(s)

SpecLlm == InitLlm /\ [][NextLlm]_vars

\* SpecSplit: split_text on every text of up to MaxTextLen characters.
SplitChars == {"a", " ", "\n", "."}
SplitTexts == UNION {[1..n -> SplitChars] : n \in 1..MaxTextLen}
ChunkSizes == {1, 2}
ChunkOverlaps == {0, 1}

InitSplit ==
    /\ ApiIdle /\ BotIdle /\ SvcIdle
    /\ vstore = <<>>
    /\ ragenv = DefaultEnv
    /\ rag = NoCall

NextSplit ==
    \/ \E text \in SplitTexts, n \in ChunkSizes, o \in ChunkOverlaps :
         call_split_text(text, n, o)
    \/ call_return

SpecSplit == InitSplit /\ [][NextSplit]_vars

\* SpecEmbed: embed_text and embed_texts on empty, blank and other texts,
\* with EMBED_DIM left at its default or set in the environment.
EmbedTexts == {<<>>, <<" ">>, <<"a">>, <<" ", "a">>}
EmbedBatches == UNION {[1..n -> EmbedTexts] : n \in 0..MaxBatch}
EmbedDims == {DEFAULT_EMBED_DIM, 768}

InitEmbed ==
    /\ ApiIdle /\ BotIdle /\ SvcIdle
    /\ vstore = <<>>
    /\ ragenv \in {[DefaultEnv EXCEPT !.EMBED_DIM = d] : d \in EmbedDims}
    /\ rag = NoCall

NextEmbed ==
    \/ \E text \in EmbedTexts : call_embed_text(text)
    \/ \E texts \in EmbedBatches : call_embed_texts(texts)
    \/ call_return

SpecEmbed == InitEmbed /\ [][NextEmbed]_vars

\* SpecRag: ingestions of texts and PDFs, twice over, while time passes;
\* the splitter is configured for small chunks so that short texts give
\* several chunks.
RagTexts ==
    { <<>>, <<" ", "\n">>, <<"a", "b">>,
      <<"a", "a", "a", "a", " ", "b", "b", "b", "b", " ", "c", "c", "c", "c">> }
RagDocumentIds == {"d1", "d2"}
Pdfs ==
    { [error |-> "HTTPStatusError", pages |-> <<>>],
      [error |-> "PdfReadError", pages |-> <<>>],
      [error |-> "", pages |-> <<>>],
      [error |-> "", pages |-> << <<>>, <<" ">> >>],
      [error |-> "", pages |-> << <<"a", "b">>, <<>>, <<"c">> >>] }

InitRag ==
    /\ now = StartTime
    /\ redis = [d \in DiscordIds |-> NoKey]
    /\ users = {}
    /\ logs = {}
    /\ feedbacks = {}
    /\ nextId = [user |-> 0, log |-> 0, fb |-> 0]
    /\ docs = {}
    /\ chunks = {}
    /\ req = [s \in Slots |-> IdleReq]
    /\ quota = [NoQuota EXCEPT !.rag = MaxRagCalls]
    /\ BotIdle
    /\ SvcIdle
    /\ vstore = <<>>
    /\ rag = NoCall
    /\ ragenv \in {DefaultEnv, [DefaultEnv EXCEPT !.CHUNK_SIZE = 1,
                                                  !.CHUNK_OVERLAP = 1]}

NextRag ==
    \/ \E text \in RagTexts, d \in RagDocumentIds : ingest_text(text, d)
    \/ \E pdf \in Pdfs, d \in RagDocumentIds : ingest_document(pdf, d)
    \/ call_return
    \/ Tick

SpecRag == InitRag /\ [][NextRag]_vars

\* SpecRetrieve: searches and retrievals over the chunks of up to two
\* ingested texts, while the index answers or fails.
Queries == { <<"a", "a", "a", "a">>, <<"A", "a", "a", "a", " ", "z">>,
             <<"c", "c", "c", "c", " ", "a", "b">>, <<" ">> }
TopKs == {1, 2}

InitRetrieve ==
    /\ now = StartTime
    /\ redis = [d \in DiscordIds |-> NoKey]
    /\ users = {}
    /\ logs = {}
    /\ feedbacks = {}
    /\ nextId = [user |-> 0, log |-> 0, fb |-> 0]
    /\ docs = {}
    /\ chunks = {}
    /\ req = [s \in Slots |-> IdleReq]
    /\ quota = [NoQuota EXCEPT !.rag = MaxRagCalls]
    /\ BotIdle
    /\ SvcIdle
    /\ vstore = <<>>
    /\ rag = NoCall
    /\ ragenv \in {[DefaultEnv EXCEPT !.CHUNK_SIZE = 1, !.CHUNK_OVERLAP = 1,
                                      !.TOP_K_RAG = k] : k \in TopKs}

NextRetrieve ==
    \/ \E text \in RagTexts : ingest_text(text, "d1")
    \/ \E knn \in Rankings(vstore), k \in TopKs, o \in SearchOutcomes :
         call_search(knn, k, o)
    \/ \E q \in Queries, oa, ob \in SearchOutcomes, ka, kb \in Rankings(vstore) :
         hybrid_retrieve(q, oa, ka, ob, kb)
    \/ call_return

SpecRetrieve == InitRetrieve /\ [][NextRetrieve]_vars

\* SpecFusion: reciprocal rank fusion applied to two ranked lists of search
\* results.  Two of the chunks are the old and the new text of chunk 1 of
\* document d1 (a re-ingestion leaves both in the index), and chunk 11 of
\* document d has the same concatenation of document id and chunk index.
MaxRanked == 3          \* results per input list
FusionChunks ==
    { [text |-> t[1], document_id |-> t[2], document_title |-> "",
       source |-> "direct_input", chunk_index |-> t[3], score |-> <<1, 1>>] :
        t \in { <<"a", "d1", 0>>, <<"b", "d1", 1>>, <<"c", "d1", 1>>,
                <<"e", "d", 11>>, <<"f", "d2", 0>> } }
\* a ranked list names a chunk once
RankedLists ==
    {l \in UNION {[1..n -> FusionChunks] : n \in 0..MaxRanked} :
        \A i, j \in DOMAIN l : l[i] = l[j] => i = j}
\* positive weights, in tenths
FusionWeights == { <<VECTOR_WEIGHT, BM25_WEIGHT>>, <<BM25_WEIGHT, VECTOR_WEIGHT>>,
                   <<1, 1>> }

InitFusion ==
    /\ ApiIdle /\ BotIdle /\ SvcIdle
    /\ vstore = <<>>
    /\ ragenv = DefaultEnv
    /\ rag = NoCall

NextFusion ==
    \/ \E a, b \in RankedLists, w \in FusionWeights :
         call_reciprocal_rank_fusion(a, b, w[1], w[2])
    \/ call_return

SpecFusion == InitFusion /\ [][NextFusion]_vars

\* SpecDaily: the submit-query requests of user u1 over the turn of the
\* UTC day, one request of user u2, and a GDPR deletion.
InitDaily ==
    InitWith([NoQuota EXCEPT
        !.query = [d \in DiscordIds |->
                     IF d = "u1" THEN MaxDailyReqs ELSE MaxOtherReqs],
        !.gdpr = MaxGdprReqs])

NextDaily ==
    \/ \E s \in Slots, d \in DiscordIds :
         StartQuery(s, d, <<"what", "is", "policy">>)
    \/ \E s \in Slots : QuerySteps(s)
    \/ \E s \in Slots, t \in UserIdTexts : StartGdpr(s, ValidToken, t, t)
    \/ \E s \in Slots : gdpr_get(s)
    \/ \E s \in Slots : gdpr_count(s)
    \/ \E s \in Slots : gdpr_delete_feedback(s)
    \/ \E s \in Slots : gdpr_delete_logs(s)
    \/ \E s \in Slots : gdpr_commit(s)
    \/ Tick

SpecDaily == InitDaily /\ [][NextDaily]_vars

\* SpecBanQuery: an administrator bans and unbans users while they submit
\* queries and feedback and read their history.
InitBanQuery ==
    InitWith([NoQuota EXCEPT
        !.query = [d \in DiscordIds |->
                     IF d = "u1" THEN MaxQueryReqs ELSE MaxOtherReqs],
        !.update = MaxUpdates, !.feedback = MaxOtherReqs,
        !.history = MaxHistoryReqs])

NextBanQuery ==
    \/ \E s \in Slots, t \in UserIdTexts, b \in BanInputs, r \in ReasonInputs :
         StartBanUpdate(s, t, b, r)
    \/ \E s \in Slots : update_user_get(s)
    \/ \E s \in Slots : update_user_commit(s)
    \/ \E s \in Slots, d \in DiscordIds :
         StartQuery(s, d, <<"what", "is", "policy">>)
    \/ \E s \in Slots : QuerySteps(s)
    \/ \E s \in Slots, d \in DiscordIds : StartHistory(s, d)
    \/ \E s \in Slots : get_query_history(s)
    \/ \E s \in Slots, t \in LogIdTexts, n \in Ratings : StartFeedback(s, t, n)
    \/ \E s \in Slots : submit_feedback_get(s)
    \/ \E s \in Slots : submit_feedback_existing(s)
    \/ \E s \in Slots : submit_feedback_commit(s)

SpecBanQuery == InitBanQuery /\ [][NextBanQuery]_vars

\* ================================================================ claims

\* C1: in one rate-limit window of a user (the life of one rate_limit key,
\* opened by the first request after the previous key expired) at most
\* RATE_LIMIT requests pass the rate-limit check, and a request that was
\* counted 31st or later never goes on: it is rejected with 429
\* RATE_LIMIT_EXCEEDED.
C1_RateLimitWindow ==
    /\ \A d \in DiscordIds : redis[d].admitted <= RATE_LIMIT
    /\ \A s \in Slots :
         (req[s].kind = "query" /\ req[s].count > RATE_LIMIT) =>
            \/ req[s].pc = "ttl"
            \/ /\ req[s].pc = "done"
               /\ req[s].status = HTTP_TOO_MANY
               /\ req[s].err = "RATE_LIMIT_EXCEEDED"
               /\ req[s].llm = 0 /\ req[s].persisted = {}

\* C1 witness: user u1 has had RATE_LIMIT requests admitted in the current
\* window and a further one has been rejected.
C1_Witness ==
    /\ redis["u1"].admitted = RATE_LIMIT
    /\ \E s \in Slots :
         /\ req[s].user_id = "u1" /\ req[s].pc = "done"
         /\ req[s].count > RATE_LIMIT
         /\ req[s].status = HTTP_TOO_MANY

\* C2 (as stated): for every user and every daily limit of at least 1, a
\* query whose trimmed text the same user had answered less than five minutes
\* before it arrived ends with the id of that earlier answer, without an LLM
\* call, a new QueryLog or a counter increment.
C2_DuplicateAlwaysCached ==
    \A s \in Slots :
        (/\ req[s].kind = "query" /\ req[s].pc = "done"
         /\ req[s].prior # {}
         /\ req[s].urow.daily_query_limit >= 1)
        => /\ req[s].status = HTTP_OK
           /\ req[s].qid \in req[s].prior
           /\ req[s].llm = 0
           /\ req[s].persisted \cap {"log", "counters"} = {}

\* C2 (amended): a query that has passed the rate-limit and the daily-limit
\* checks and at whose deduplication lookup the same user has a QueryLog of
\* the same trimmed text created less than five minutes earlier ends with 200
\* and the id of such a QueryLog, without an LLM call, a new QueryLog or a
\* counter increment.
C2_DuplicateCachedAtLookup ==
    \A s \in Slots :
        (req[s].kind = "query" /\ req[s].pc \notin {"idle", "dedup"}
         /\ req[s].fresh # {})
        => /\ req[s].pc = "done"
           /\ req[s].status = HTTP_OK
           /\ req[s].qid \in req[s].fresh
           /\ req[s].llm = 0
           /\ req[s].persisted \cap {"log", "counters"} = {}

\* C2 witness: a duplicate submitted at a later instant than the answer it
\* repeats has been served from that answer.
C2_Witness ==
    \E s \in Slots :
        /\ req[s].kind = "query" /\ req[s].pc = "done"
        /\ req[s].status = HTTP_OK /\ req[s].llm = 0
        /\ req[s].qid \in req[s].fresh
        /\ \E l \in logs : l.id = req[s].qid /\ l.created_at < req[s].tdone

\* C3: a request of a user whose queries_today has reached daily_query_limit
\* ends with 429 and a retry_after equal to the whole seconds until the next
\* UTC midnight, without an LLM call, a QueryLog or a counter change.
C3_DailyLimitRetryAfter ==
    \A s \in Slots :
        (req[s].kind = "query" /\ req[s].pc = "done" /\ req[s].atLimit)
        => LET t == req[s].tdone
               nextMidnight == ((t \div DayTicks) + 1) * DayTicks
           IN /\ req[s].status = HTTP_TOO_MANY
              /\ req[s].retry = (nextMidnight - t) \div TicksPerSecond
              /\ req[s].llm = 0
              /\ req[s].persisted \cap {"log", "counters"} = {}

\* C4: a submit-query request ends either with 200 and one persisted QueryLog
\* whose id it returns, or with an error and nothing persisted by it.
C4_SuccessOrNothingPersisted ==
    \A s \in Slots :
        (req[s].kind = "query" /\ req[s].pc = "done")
        => \/ /\ req[s].status = HTTP_OK
              /\ Cardinality({l \in logs : l.id = req[s].qid}) = 1
           \/ /\ req[s].status # HTTP_OK
              /\ req[s].persisted = {}

\* C10: no two User rows have the same platform identity.
C10_OneUserPerIdentity ==
    \A u \in users : \A v \in users : u.discord_id = v.discord_id => u = v

\* C10 witness: two first-time requests of u1 both went past the lookup; one
\* inserted the row, the other one's INSERT was refused.
C10_Witness ==
    /\ \E u \in users : u.discord_id = "u1"
    /\ \E s \in Slots :
         /\ req[s].kind = "query" /\ req[s].user_id = "u1"
         /\ req[s].pc = "done" /\ req[s].status = HTTP_INTERNAL

\* C5: a QueryLog has at most one QueryFeedback row, whatever the interleaving
\* of the submissions.
C5_OneFeedbackPerQuery ==
    \A f \in feedbacks : \A g \in feedbacks : f.query_id = g.query_id => f = g

\* C5 witness: two submissions for the same QueryLog both passed the existence
\* check; one is stored, the other one's INSERT was refused.
C5_Witness ==
    \E s \in Slots : \E o \in Slots :
        /\ s # o
        /\ req[s].kind = "feedback" /\ req[o].kind = "feedback"
        /\ req[s].qid = req[o].qid
        /\ req[s].pc = "done" /\ req[s].status = HTTP_OK
        /\ req[o].pc = "done" /\ req[o].status = HTTP_INTERNAL
        /\ Cardinality({f \in feedbacks : f.query_id = req[s].qid}) = 1

\* C6: a feedback submission that ends while feedback for its query is stored
\* by another submission is rejected with 409 and stores nothing.
C6_LaterFeedbackConflict ==
    \A s \in Slots :
        (req[s].kind = "feedback" /\ req[s].pc = "done" /\ req[s].dup)
        => /\ req[s].status = HTTP_CONFLICT
           /\ req[s].persisted = {}

\* C7: a request to any of the seven /admin operations whose X-Admin-Token is
\* absent or differs from the configured token ends with 403 and changes no
\* persistent state.
C7_BadTokenForbidden ==
    \A s \in Slots :
        (/\ req[s].kind \in {"read", "update", "retrain", "gdpr"}
         /\ req[s].token # ValidToken)
        => /\ req[s].pc = "done"
           /\ req[s].status = HTTP_FORBIDDEN
           /\ req[s].persisted = {} /\ req[s].delF = {} /\ req[s].delL = {}

\* C8: a GDPR deletion request whose confirm text differs from the user id
\* text never reaches the database: it deletes nothing, and when the admin
\* token is the right one it ends with 400.
C8_ConfirmMismatchRejected ==
    \A s \in Slots :
        (req[s].kind = "gdpr" /\ req[s].confirm # req[s].target)
        => /\ req[s].pc = "done"
           /\ req[s].persisted = {} /\ req[s].delF = {} /\ req[s].delL = {}
           /\ req[s].token = ValidToken => req[s].status = HTTP_BAD_REQUEST

\* C8 witness: a request with the right token whose confirm text names the
\* same user in another spelling was rejected with 400 while that user had
\* a QueryLog.
C8_Witness ==
    \E s \in Slots :
        /\ req[s].kind = "gdpr" /\ req[s].pc = "done"
        /\ req[s].token = ValidToken
        /\ req[s].confirm # req[s].target
        /\ UUID(req[s].confirm) = UUID(req[s].target)
        /\ req[s].status = HTTP_BAD_REQUEST
        /\ \E l \in logs : l.user_id = UUID(req[s].target)

\* C9: when the commit of a correctly confirmed GDPR deletion for a user has
\* taken place, no QueryLog and no QueryFeedback of that user is left and the
\* user's counters are 0.
C9_NothingLeftAfterDeletion ==
    \A s \in Slots :
        (req[s].kind = "gdpr" /\ "gdpr" \in req[s].persisted)
        => req[s].left = {}

\* C11: with no GDPR deletion, every user's total_queries (and queries_today)
\* equals the number of QueryLog rows of that user, whatever the interleaving
\* of the submit-query requests.
C11_CountersMatchLogs ==
    \A u \in users :
        LET n == Cardinality({l \in logs : l.user_id = u.id})
        IN u.total_queries = n /\ u.queries_today = n

\* C12: a retrain request without force_reindex whose lookup found a
\* ComplianceDocument of its document_id ends with 409, has run no ingestion
\* (the vector store is as it was) and leaves every document's version as it
\* was.
C12_ExistingWithoutForceRejected ==
    /\ \A d \in docs : d = DocRow(d.document_id, 1)
    /\ \A s \in Slots :
         (/\ req[s].kind = "retrain" /\ req[s].pc \notin {"idle", "select"}
          /\ req[s].token = ValidToken
          /\ req[s].edoc # NoDoc /\ ~req[s].force)
         => /\ req[s].pc = "done"
            /\ req[s].status = HTTP_CONFLICT
            /\ req[s].persisted = {}

\* C12 witness: such a request has been rejected while another request, with
\* force_reindex, has stored chunks for the same document.
C12_Witness ==
    \E s \in Slots : \E o \in Slots :
        /\ req[s].kind = "retrain" /\ req[s].pc = "done"
        /\ req[s].edoc # NoDoc /\ ~req[s].force
        /\ req[s].status = HTTP_CONFLICT
        /\ req[o].kind = "retrain" /\ req[o].force /\ req[o].doc = req[s].doc
        /\ "chunks" \in req[o].persisted

\* C13: a retrain request whose ingestion stored chunks ends with 200 and
\* exactly one ComplianceDocument row of its document_id, at version 1 for a
\* first ingestion and at the previous version plus 1 for a forced one.
C13_VersionedRecord ==
    \A s \in Slots :
        (req[s].kind = "retrain" /\ req[s].pc = "done"
         /\ "chunks" \in req[s].persisted)
        => /\ req[s].status = HTTP_OK
           /\ Cardinality({d \in docs : d.document_id = req[s].doc}) = 1
           /\ \A d \in docs : d.document_id = req[s].doc =>
                d.version.val = IF req[s].edoc # NoDoc
                                THEN req[s].edoc.version.val + 1 ELSE 1

\* C14: an update-user, retrain or GDPR request that has committed its data
\* change has also persisted an audit-log entry when it ends.
C14_AuditWithEveryChange ==
    \A s \in Slots :
        (/\ req[s].kind \in {"update", "retrain", "gdpr"}
         /\ req[s].pc = "done"
         /\ req[s].persisted \cap {"user", "gdpr", "document"} # {})
        => "audit" \in req[s].persisted

\* C15: the bot connects to Discord only after a health check of the API
\* reported healthy; it makes at most MAX_RETRIES checks, each RETRY_DELAY
\* seconds after the one before ended, none after the first healthy report;
\* when none of the MAX_RETRIES checks is healthy the process ends without
\* ever connecting.
C15_ConnectOnlyAfterHealthy ==
    LET r == startup.replies
        n == Len(r)
    IN /\ n <= MAX_RETRIES
       /\ \A i \in 1..(n - 1) :
            /\ r[i] # "healthy"
            /\ startup.began[i + 1] - startup.ended[i] = RETRY_DELAY
       /\ startup.pc \in {"start", "connected", "failed"} =>
            n >= 1 /\ r[n] = "healthy"
       /\ startup.connected => startup.pc = "connected"
       /\ startup.pc = "aborted" =>
            /\ n = MAX_RETRIES
            /\ \A i \in 1..n : r[i] # "healthy"
       /\ startup.pc \in {"aborted", "crashed"} => ~startup.connected

\* C15 witnesses: connected on the last allowed check after two that were not
\* healthy; aborted after three checks.
C15_Witness ==
    /\ startup.pc = "connected"
    /\ Len(startup.replies) = MAX_RETRIES
    /\ startup.replies[1] = "degraded"
    /\ startup.replies[2] = "unreachable"

\* C16 (as stated): every feedback control sends at most one feedback
\* submission to the API.
C16_OneSubmissionPerControl ==
    \A c \in Controls : views[c].sent <= 1

\* C16 (amended): a control can send several submissions, but at most one of
\* them is accepted; its buttons are disabled only after one of its own
\* submissions was accepted, the message shows them disabled only when they
\* are, and no query has more than one feedback stored.
C16_OneAcceptedPerControl ==
    /\ \A c \in Controls :
         /\ views[c].accepted <= 1
         /\ views[c].accepted <= views[c].sent
         /\ views[c].disabled => views[c].accepted = 1
         /\ views[c].edited => views[c].disabled
    /\ Cardinality({f \in feedbacks : f.query_id = 1}) <=  1

\* C16 witness: a control that sent two submissions, one accepted, and whose
\* message shows the buttons disabled.
C16_Witness ==
    \E c \in Controls :
        /\ views[c].sent = 2
        /\ views[c].accepted = 1
        /\ views[c].edited

\* C17 (as stated): whenever no reply of user u is being sent, u's session entry
\* is absent if no ask of u was answered and delivered, and otherwise is the
\* query_id of the ask of u that was completed last; asks that fail leave it
\* unchanged.
C17_EntryIsLastCompletedAsk ==
    \A d \in DiscordIds :
        (\A s \in Slots : ~(asks[s].pc = "reply" /\ asks[s].user = d)) =>
            user_sessions[d] = askhist[d].delivered

\* C17 (amended): u's session entry is absent if the API has answered no ask
\* of u, and otherwise is the query_id of the answer that the bot received
\* last for u, whether or not the reply then reached Discord; rejected asks,
\* asks the API turns down and asks of other users leave it unchanged.
C17_EntryIsLastReturned ==
    \A d \in DiscordIds :
        user_sessions[d] =
            IF askhist[d].returned = <<>> THEN Null
            ELSE askhist[d].returned[Len(askhist[d].returned)]

\* C17 witness: u1 has the entry of its second answered ask, u2 the entry of
\* its only answered one (its other ask was turned down by the rate limit).
C17_Witness ==
    /\ Len(askhist["u1"].returned) = 2
    /\ user_sessions["u1"] # askhist["u1"].returned[1]
    /\ Len(askhist["u2"].returned) = 1
    /\ user_sessions["u2"] = askhist["u2"].returned[1]
    /\ redis["u2"].count > RATE_LIMIT
    /\ \A s \in Slots : asks[s].pc = "idle"

\* C18: a session that get_session handed out is released exactly once by the
\* time get_session is left and never more than once; when the handler
\* returned, a commit comes before the release; when the handler raised, a
\* rollback comes before the release and the exception that leaves
\* get_session is the handler's.
C18_ReleasedOnceAfterCommitOrRollback ==
    \A s \in Slots :
        LET e == dbsess[s].events
            at(x) == {i \in 1..Len(e) : e[i] = x}
        IN /\ Cardinality(at("release")) <= 1
           /\ dbsess[s].held <=> (dbsess[s].pc \in {"handler", "commit", "rollback", "close"})
           /\ dbsess[s].pc = "exited" =>
                /\ Cardinality(at("release")) = 1
                /\ dbsess[s].outcome = "return" =>
                     \E i \in at("commit") : \A j \in at("release") : i < j
                /\ dbsess[s].outcome = "raise" =>
                     /\ \E i \in at("rollback") : \A j \in at("release") : i < j
                     /\ at("commit") = {}
                     /\ dbsess[s].out = dbsess[s].exc
                     /\ dbsess[s].out \in HandlerExceptions \cup {CANCELLED}
                /\ dbsess[s].out = "" <=> dbsess[s].txn = "committed"

\* C18 witness: one request has left get_session after its handler raised,
\* another after its handler returned and the commit went through.
C18_Witness ==
    \E s, t \in Slots :
        /\ dbsess[s].pc = "exited" /\ dbsess[s].outcome = "raise"
        /\ dbsess[s].out = "HTTPException"
        /\ dbsess[t].pc = "exited" /\ dbsess[t].outcome = "return"
        /\ dbsess[t].txn = "committed"

\* C19: a query that reached ask_compliance either goes on with a result or
\* ends with one of two errors: PROCESSING_ERROR with stage json_parsing
\* exactly when the text of the model could not be parsed as JSON, neither as
\* it is nor between code fences, and MODEL_UNAVAILABLE for a missing API key
\* and for every other failure of retrieval, provider call or content.
C19_TwoTypedErrors ==
    \A s \in Slots :
        LET r == req[s]
        IN (r.kind = "query" /\ r.llm > 0) =>
             /\ r.pc \in {"commit", "done"}
             /\ (r.pc = "commit" \/ r.status = HTTP_OK) <=> r.cause = ""
             /\ r.cause # "" =>
                  /\ r.err \in {"MODEL_UNAVAILABLE", "PROCESSING_ERROR"}
                  /\ r.err = "PROCESSING_ERROR" <=> r.cause = "JSONDecodeError"
                  /\ r.err = "PROCESSING_ERROR" =>
                       /\ r.status = HTTP_UNPROCESSABLE
                       /\ r.op = "json_parsing"
                       /\ json_loads(r.content).type = "error"
                       /\ \A i, j \in 1..Len(r.content) :
                            (i < j /\ r.content[i] = FENCE_JSON /\ r.content[j] = FENCE)
                              => json_loads(SubSeq(r.content, i + 1, j - 1)).type = "error"
                  /\ r.err = "MODEL_UNAVAILABLE" => r.status = HTTP_UNAVAILABLE

\* C19 witness: one request ended with the processing error for a fenced
\* text that is no JSON, another with model-unavailable for a JSON list.
C19_Witness ==
    \E s, t \in Slots :
        /\ req[s].err = "PROCESSING_ERROR"
        /\ req[s].content = <<FENCE_JSON, "x", FENCE>>
        /\ req[t].err = "MODEL_UNAVAILABLE"
        /\ req[t].cause = "AttributeError"

\* C20: every QueryLog row has a confidence score between 0 and 1.
C20_ConfidenceInUnitInterval ==
    \A l \in logs : 0 <= l.confidence_score /\ l.confidence_score <= SCORE_UNIT

\* C21: every QueryLog row whose confidence score is below 0.5 is flagged.
C21_LowConfidenceFlagged ==
    \A l \in logs : l.confidence_score < FLAG_BELOW => l.is_flagged

\* C21 witness: a flagged row with score 0.3 next to an unflagged row.
C21_Witness ==
    \E l, m \in logs :
        /\ l.confidence_score = 30 /\ l.is_flagged
        /\ m.confidence_score >= FLAG_BELOW /\ ~m.is_flagged

\* C22: the label of an answer (fresh or cached) and the label of a history
\* entry are the label of the stored score: high from 0.85, medium from 0.6
\* to below 0.85, low below 0.6; so the cached answer and the history entry
\* of a query carry the label of the original answer.
C22_SameLabelEverywhere ==
    LET Label(x) == CASE x >= 85 -> "high"
                      [] x >= 60 /\ x < 85 -> "medium"
                      [] OTHER -> "low"
    IN \A s \in Slots : \A l \in logs :
         /\ (req[s].kind = "query" /\ req[s].pc = "done" /\ req[s].status = HTTP_OK
               /\ req[s].qid = l.id)
              => req[s].label = Label(l.confidence_score)
         /\ (req[s].kind = "history" /\ req[s].pc = "done")
              => \A h \in req[s].hist :
                   h.query_id = l.id => h.confidence = Label(l.confidence_score)

\* C22 witness: a row with score 0.6 whose cached answer and history entry
\* are both there, labelled medium.
C22_Witness ==
    \E s, t \in Slots : \E l \in logs :
        /\ l.confidence_score = 60
        /\ req[s].kind = "query" /\ req[s].pc = "done" /\ req[s].llm = 0
        /\ req[s].qid = l.id /\ req[s].label = "medium"
        /\ req[t].kind = "history" /\ req[t].pc = "done"
        /\ [query_id |-> l.id, confidence |-> "medium", has_feedback |-> FALSE]
             \in req[t].hist

\* C23: a user is banned exactly when a ban timestamp is recorded in the
\* user's row.
C23_BannedIffTimestamp ==
    \A u \in users :
        u.is_banned <=> ("banned_at" \in DOMAIN u /\ u.banned_at # Null)

\* C24: GET /health/ready answers 503 exactly when the database cannot be
\* queried or the model API is unavailable, and 200 with status ready
\* otherwise.
C24_ReadyUnlessCheckFails ==
    \A s \in Slots :
        (req[s].kind = "health" /\ req[s].op = "/ready" /\ req[s].pc = "done")
        => /\ req[s].status = HTTP_UNAVAILABLE
                <=> (~req[s].env.database \/ ~req[s].env.grok4)
           /\ req[s].status # HTTP_UNAVAILABLE
                => (req[s].status = HTTP_OK /\ req[s].body.status = "ready")

\* C25: GET /health answers 200 with status healthy or degraded and a body
\* that has a database and a redis entry.
C25_HealthHasComponents ==
    \A s \in Slots :
        (req[s].kind = "health" /\ req[s].op = "" /\ req[s].pc = "done")
        => /\ req[s].status = HTTP_OK
           /\ req[s].body.status \in {"healthy", "degraded"}
           /\ {"database", "redis"} \subseteq DOMAIN req[s].body

\* C27: no chunk returned by split_text for a non-empty text and a
\* chunk_size of at least 1 has more than chunk_size * 4 characters.
C27_ChunkWithinSize ==
    (rag.op = "split_text" /\ rag.args[1] # <<>> /\ rag.args[2] >= 1)
    => \A i \in 1..Len(rag.result) :
         Len(rag.result[i]) <= rag.args[2] * 4

\* C30: every vector returned by embed_text and embed_texts has EMBED_DIM
\* components, a batch yields one vector per text, and the vector of an
\* empty or blank text is all zero.
C30_EmbeddingDimension ==
    /\ rag.op = "embed_text"
       => /\ Len(rag.result) = ragenv.EMBED_DIM
          /\ str_strip(rag.args[1]) = <<>>
               => \A k \in 1..Len(rag.result) : rag.result[k] = 0
    /\ rag.op = "embed_texts"
       => /\ Len(rag.result) = Len(rag.args[1])
          /\ \A i \in 1..Len(rag.result) :
               /\ Len(rag.result[i]) = ragenv.EMBED_DIM
               /\ str_strip(rag.args[1][i]) = <<>>
                    => \A k \in 1..Len(rag.result[i]) : rag.result[i][k] = 0

\* C28: when the splitter returns no chunk, ingest_text and ingest_document
\* return status failed with reason no_chunks_generated, raise nothing and
\* leave the vector store as it was.
C28_NoChunksFails ==
    [][( /\ rag.op = "none"
         /\ rag'.op \in {"ingest_text", "ingest_document"}
         /\ rag'.op = "ingest_document" => rag'.args[1].error = ""
         /\ split_text(rag'.text, RecursiveTextSplitter(0, 0)) = <<>> )
       => /\ rag'.raised = ""
          /\ rag'.status = "failed" /\ rag'.reason = "no_chunks_generated"
          /\ vstore' = vstore]_vars

\* C28 witness: ingest_document has failed on a PDF whose pages give no
\* chunk while the store holds the chunks of an earlier ingestion.
C28_Witness ==
    /\ rag.op = "ingest_document" /\ rag.status = "failed"
    /\ rag.args[1].pages # <<>>
    /\ vstore # <<>>

\* C29: ingesting a text again under the same document_id writes exactly
\* the keys written the first time, so the stored keys and the chunk count
\* are the same after the second ingestion as before it.
C29_ReingestSameKeys ==
    [][( /\ rag.op = "none"
         /\ rag'.op \in {"ingest_text", "ingest_document"}
         /\ rag'.status = "success"
         /\ <<rag'.text, rag'.args[2]>> \in DOMAIN rag.seen )
       => /\ rag'.wrote = rag.seen[<<rag'.text, rag'.args[2]>>].keys
          /\ DOMAIN vstore' = DOMAIN vstore
          /\ count_chunks(vstore') = count_chunks(vstore)]_vars

\* C29 witness: a text of three chunks has been ingested a second time,
\* later than the first time, and the store holds three chunks.
C29_Witness ==
    /\ rag.op = "ingest_text" /\ rag.status = "success"
    /\ Cardinality(rag.wrote) = 3
    /\ count_chunks(vstore) = 3
    /\ \E k \in DOMAIN vstore : vstore[k].embedding # <<>>
    /\ now > StartTime
    /\ rag.seen[<<rag.text, rag.args[2]>>].times = 2

\* C26: whatever error the index search raises (response error, connection
\* error, timeout), VectorStore.search returns an empty list and raises
\* nothing, and hybrid_retrieve goes on to the keyword search.
C26_SearchFailureIsEmpty ==
    /\ (rag.op = "search" /\ rag.args[2] # "ok")
         => (rag.result = <<>> /\ rag.raised = "")
    /\ (rag.op = "hybrid_retrieve" /\ rag.args[2] # "ok")
         => (Len(rag.steps) >= 2 /\ rag.steps[2] = "bm25")

\* the fusion key of a result: document id followed by the chunk index
fusion_key(r) == r.document_id \o ToString(r.chunk_index)

\* the same chunk: score apart, the results agree
same_chunk(r, x) ==
    /\ r.text = x.text /\ r.document_id = x.document_id
    /\ r.chunk_index = x.chunk_index

\* x stands before y in the list
ranked_before(l, x, y) ==
    \E i, j \in 1..Len(l) : i < j /\ same_chunk(l[i], x) /\ same_chunk(l[j], y)

\* no two results of the list have one fusion key
distinct_keys(l) ==
    \A i, j \in 1..Len(l) : fusion_key(l[i]) = fusion_key(l[j]) => i = j

\* C31: when no input list holds two results with the same document id +
\* chunk index key, a chunk x ranked before a chunk y in both input lists
\* is placed before y in the output of reciprocal rank fusion.
C31_FusionKeepsOrder ==
    rag.op = "reciprocal_rank_fusion" =>
        LET a == rag.args[1]
            b == rag.args[2]
        IN (distinct_keys(a) /\ distinct_keys(b)) =>
             \A x, y \in FusionChunks :
                (ranked_before(a, x, y) /\ ranked_before(b, x, y))
                    => ranked_before(rag.result, x, y)

\* C31 as the specification states it: for any two ranked lists, x ranked
\* before y in both lists is placed before y in the output.
C31_FusionKeepsOrderAlways ==
    rag.op = "reciprocal_rank_fusion" =>
        \A x, y \in FusionChunks :
           (ranked_before(rag.args[1], x, y) /\ ranked_before(rag.args[2], x, y))
               => ranked_before(rag.result, x, y)

\* C31 witness: two lists of three results with distinct keys that rank
\* the same three chunks in different orders have been fused, and two of
\* the chunks stand in the same order in both.
C31_Witness ==
    /\ rag.op = "reciprocal_rank_fusion"
    /\ Len(rag.args[1]) = 3 /\ Len(rag.args[2]) = 3
    /\ distinct_keys(rag.args[1]) /\ distinct_keys(rag.args[2])
    /\ rag.args[1] # rag.args[2]
    /\ \E x, y \in FusionChunks :
          ranked_before(rag.args[1], x, y) /\ ranked_before(rag.args[2], x, y)

\* the first n results of a list: results[:n]
first_n(results, n) == SubSeq(results, 1, IF Len(results) < n THEN Len(results) ELSE n)

\* C32: a hybrid_retrieve that returns has at most top_k results; when the
\* vector search gave at least top_k results the keyword pass and the fusion
\* did not run, and when the keyword pass gave no result the fusion did not
\* run; in both cases the result is the vector ranking in its order, cut
\* to top_k.
C32_VectorRankingUnlessFused ==
    (rag.op = "hybrid_retrieve" /\ rag.raised = "") =>
        LET top_k == ragenv.TOP_K_RAG
            vector == rag.legs[1]
            keyword == rag.legs[2]
        IN /\ Len(rag.result) <= top_k
           /\ Len(vector) >= top_k => rag.steps = <<"vector">>
           /\ (Len(vector) >= top_k \/ keyword = <<>>) =>
                 /\ rag.result = first_n(vector, top_k)
                 /\ \A i \in 1..Len(rag.steps) : rag.steps[i] # "fusion"

\* C32 witness: the vector search gave more than top_k results, so the
\* ranking was cut, and the keyword pass did not run although the query
\* has a word of the first stored chunk.
C32_Witness ==
    /\ rag.op = "hybrid_retrieve" /\ rag.raised = ""
    /\ rag.steps = <<"vector">>
    /\ Len(rag.legs[1]) > ragenv.TOP_K_RAG
    /\ Len(rag.result) = ragenv.TOP_K_RAG
    /\ rag.legs[2] = <<>>
    /\ words(lower(rag.args[1])) \cap words(lower(rag.legs[1][1].text)) # {}

\* the steps of process_query that touch Redis, the database or the model,
\* in the order of the code
QueryFlow == <<"rate_limit", "user", "daily_limit", "dedup", "llm", "commit">>

\* the steps a request has run are the first steps of the flow
in_flow_order(trace) ==
    Len(trace) <= Len(QueryFlow) /\ trace = SubSeq(QueryFlow, 1, Len(trace))

\* the request was answered from the deduplication lookup
suppressed_duplicate(r) ==
    /\ r.kind = "query" /\ r.pc = "done" /\ r.status = HTTP_OK
    /\ r.trace = SubSeq(QueryFlow, 1, 4)

\* what C33 says of every step but the writes of a suppressed duplicate
query_flow_holds(r) ==
    /\ in_flow_order(r.trace)
    \* counted over the limit: nothing after the rate-limit check
    /\ (OverRateLimit(r.count) /\ r.pc \notin {"incr", "expire", "ttl"}) =>
          /\ r.pc = "done" /\ r.status = HTTP_TOO_MANY
          /\ r.trace = SubSeq(QueryFlow, 1, 1)
          /\ r.urow = NoUser /\ r.persisted = {}
    \* at the daily limit: no deduplication lookup, no model call
    /\ ("daily_limit" \in {r.trace[i] : i \in 1..Len(r.trace)}
          /\ r.urow.queries_today >= r.urow.daily_query_limit) =>
          /\ r.pc = "done" /\ r.status = HTTP_TOO_MANY /\ r.atLimit
          /\ r.trace = SubSeq(QueryFlow, 1, 3)
          /\ r.llm = 0 /\ r.persisted \subseteq {"user"}
    /\ suppressed_duplicate(r) => r.llm = 0

\* C33: a submit-query request runs the steps rate-limit check, user
\* lookup, daily-limit check, deduplication lookup, model call, commit in
\* this order; one rejected by the rate-limit check looks up and creates no
\* user; one rejected by the daily limit runs no deduplication lookup and
\* no model call; a suppressed duplicate calls no model and writes no
\* QueryLog and no counter.
C33_StepsInOrder ==
    \A s \in Slots :
        req[s].kind = "query" =>
            /\ query_flow_holds(req[s])
            /\ suppressed_duplicate(req[s]) =>
                  req[s].persisted \cap {"log", "counters"} = {}

\* C33 as the specification states it: a suppressed duplicate performs no
\* database write at all.
C33_DuplicateWritesNothing ==
    \A s \in Slots :
        req[s].kind = "query" =>
            /\ query_flow_holds(req[s])
            /\ suppressed_duplicate(req[s]) => req[s].persisted = {}

\* C33 witness: a request has been answered from the deduplication lookup
\* while another request of the model is rejected by the rate-limit check.
C33_Witness ==
    \E s, t \in Slots :
        /\ suppressed_duplicate(req[s]) /\ req[s].persisted = {}
        /\ req[t].kind = "query" /\ req[t].pc = "done"
        /\ OverRateLimit(req[t].count)

\* C34: the deduplication lookup takes no lock.  Whenever a request
\* commits a QueryLog although a row of the same user with the same hash
\* was created less than five minutes before, that row was not there when
\* the request made its lookup: it was committed by a request running at
\* the same time, and each of the two has called the model.
C34_DuplicateRowsByInterleaving ==
    [][\A s \in Slots :
         (req[s].kind = "query" /\ req[s].pc = "commit" /\ req'[s].pc = "done") =>
            \A l \in logs :
               (/\ l.user_id = req[s].urow.id
                /\ l.query_hash = sha256(req[s].query)
                /\ now - l.created_at < DedupTicks)
               => /\ l.id \notin req[s].fresh
                  /\ req[s].llm = 1
                  /\ \E i \in 1..Len(req[s].trace) : req[s].trace[i] = "dedup"]_vars

\* C34 witness: two QueryLog rows of one user with the same hash, created
\* less than five minutes apart.
C34_Witness ==
    \E l1, l2 \in logs :
        /\ l1.id # l2.id
        /\ l1.user_id = l2.user_id
        /\ l1.query_hash = l2.query_hash
        /\ l1.created_at <= l2.created_at
        /\ l2.created_at - l1.created_at < DedupTicks

\* C35: a request that logs its answer does so while the user has fewer
\* QueryLog rows than the daily_query_limit the request checked against
\* (no run of this specification resets queries_today), so that no more
\* than daily_query_limit requests of a user reach the model and get logged.
C35_AtMostLimitLogged ==
    [][\A s \in Slots :
         (req[s].kind = "query" /\ req[s].pc = "commit" /\ req'[s].pc = "done") =>
            Cardinality({l \in logs : l.user_id = req[s].urow.id})
                < req[s].urow.daily_query_limit]_vars

\* the last instant of SpecRate
RateHorizon == StartTime + RateTicks + 1

\* C36: a user whose rate-limit counter has reached the limit is admitted
\* again later: once no request of the user stands between its increment
\* and its expire call, the counter is gone within the 60-second window
\* (stated for the windows that end before the last instant of the run).
C36_RejectedEventuallyAdmitted ==
    \A d \in DiscordIds :
        (/\ redis[d].count >= RATE_LIMIT
         /\ now + RateTicks <= RateHorizon
         /\ \A s \in Slots : ~(req[s].user_id = d /\ req[s].pc = "expire"))
        ~> (redis[d].count < RATE_LIMIT)

\* C37: queries_today of a user row is lowered by no step but the commit
\* of a GDPR deletion; in particular not by the turn of the UTC day and not
\* by a submit-query request.
C37_LoweredOnlyByGdpr ==
    [][\A u \in users : \A v \in users' :
         (v.id = u.id /\ v.queries_today < u.queries_today) =>
            \E s \in Slots : /\ req[s].kind = "gdpr" /\ req[s].pc = "commit"
                             /\ req'[s].pc # "commit"]_vars

\* the request with the ban fields of the row it holds blanked
without_ban(r) == [r EXCEPT !.urow.is_banned = FALSE, !.urow.ban_reason = <<>>]

\* the row as it is after a ban with a reason / after an unban
with_ban(u, banned) ==
    [u EXCEPT !.is_banned = banned,
              !.ban_reason = IF banned THEN <<"spam">> ELSE <<>>]

\* C38: the ban fields do not influence query handling.  The one step of
\* a query that reads the user's row, the daily-limit check, goes the same
\* way and prepares the same answer for the row as it is and for the row
\* with the ban set or cleared; no query, feedback or history request is
\* refused for a ban, and the row a history request holds matters only by
\* its id.
C38_BanHasNoInfluence ==
    \A s \in Slots :
        /\ (req[s].kind = "query" /\ req[s].pc \in {"select", "refresh"}) =>
              \A u \in UsersByDiscordId(req[s].user_id) : \A banned \in BOOLEAN :
                 without_ban(daily_limit_check(req[s], with_ban(u, banned)))
                    = without_ban(daily_limit_check(req[s], u))
        /\ req[s].kind \in {"query", "feedback", "history"} =>
              req[s].status # HTTP_FORBIDDEN
        /\ (req[s].kind = "query" /\ req[s].pc = "done" /\ req[s].urow.is_banned
              /\ req[s].urow.queries_today < req[s].urow.daily_query_limit) =>
              req[s].status # HTTP_TOO_MANY \/ OverRateLimit(req[s].count)

\* C38 witness: a banned user has submitted a query that was answered and
\* logged.
C38_Witness ==
    \E s \in Slots :
        /\ req[s].kind = "query" /\ req[s].pc = "done"
        /\ req[s].status = HTTP_OK /\ "log" \in req[s].persisted
        /\ req[s].urow.is_banned
        /\ \E u \in users : u.id = req[s].urow.id /\ u.is_banned

\* C39: a retrain request whose ingestion returned status failed (no chunks
\* generated) ends with 200, and its document has one record, at version 1
\* when there was none and at the previous version plus 1 otherwise.
C39_FailedIngestionReportsSuccess ==
    \A s \in Slots :
        (req[s].kind = "retrain" /\ req[s].pc = "done"
         /\ req[s].cause = "no_chunks")
        => /\ req[s].status = HTTP_OK
           /\ \E d \in docs :
                 /\ d.document_id = req[s].doc
                 /\ d.version.val = IF req[s].edoc # NoDoc
                                    THEN req[s].edoc.version.val + 1 ELSE 1

\* the chunk stored under the key is among the results of a search that
\* asks for as many results as the index holds
retrievable(store, k) ==
    \E knn \in Rankings(store) :
        \E i \in 1..Len(knn) :
            LET r == search(store, knn, Cardinality(DOMAIN store), "ok").result[i]
            IN /\ r.text = store[k].chunk_text
               /\ r.document_id = store[k].document_id
               /\ r.chunk_index = store[k].chunk_index

\* C40: an ingestion adds and overwrites hashes and deletes none: every
\* key that was in the vector store is in it afterwards, with its fields
\* unchanged unless the ingestion produced the key again, and its chunk
\* can still be found by a search.
C40_IngestionNeverDeletes ==
    [][(rag.op = "none" /\ rag'.op \in {"ingest_text", "ingest_document"}) =>
          \A k \in DOMAIN vstore :
             /\ k \in DOMAIN vstore'
             /\ k \notin rag'.wrote => vstore'[k] = vstore[k]
             /\ retrievable(vstore', k)]_vars

\* C40 witness: a document has been ingested again from a PDF with another
\* text, and a chunk of its earlier text, whose key was not written again,
\* is still stored.
C40_Witness ==
    /\ rag.op = "ingest_document" /\ rag.status = "success"
    /\ \E k \in DOMAIN vstore :
          /\ k \notin rag.wrote
          /\ vstore[k].document_id = rag.args[2]
          /\ retrievable(vstore, k)
====
